---- MODULE Spec2Model ----
(***************************************************************************)
(* go-cache-prune: watch the Go module cache and the Go build cache, record *)
(* the paths the watcher backend reports, and on SIGHUP delete what was not *)
(* recorded.  Model of src/main.go.                                         *)
(*                                                                          *)
(* A file name is a sequence of tokens (<<"a","@","v1.0.0">> is the name    *)
(* a@v1.0.0), so that strings.Contains / strings.Cut / strings.HasSuffix    *)
(* are computed on the name.  A path is a sequence of names; the first name *)
(* is the cache root.                                                       *)
(***************************************************************************)
EXTENDS Integers, Sequences, FiniteSets, TLC

VARIABLES
    fsys,        \* [Cache -> set of [p: path, d: isDir]] : the two cache trees
    readonly,    \* [Cache -> set of paths] : entries without write permission
    undeletable, \* [Cache -> set of paths] : entries whose unlink fails
    unreadable,  \* [Cache -> set of paths] : directories whose ReadDir fails (not ENOENT)
    unchmodable, \* [Cache -> set of paths] : entries whose Chmod fails
    unwatchable, \* [Cache -> set of paths] : directories whose AddDescriptor fails
    enabled,     \* caches with a non-empty root (cfg.moduleCache / cfg.buildCache)
    pc,          \* position of mainErr
    mainCancelled,  \* mainCtx.Err() != nil
    watchCancelled, \* watchCtx is done
    ret,         \* the error mainErr returned (Nil until it returns one)
    exitCode,    \* result of mainRetCode, -1 while running
    files,       \* [Cache -> usage set] : modFiles / buildFiles of mainErr
    wpc,         \* [Cache -> position of the watchCache goroutine]
    watches,     \* [Cache -> set of paths] : descriptors held by the watcher
    evq,         \* [Cache -> Seq(path)] : events made available on watcher.Events
    chClosed,    \* [Cache -> BOOLEAN] : the backend closed its channels
    usedFiles,   \* [Cache -> set of paths] : usedFiles of the running session
    wres,        \* [Cache -> usage set returned by watchCache]
    werr,        \* [Cache -> BOOLEAN] : watchCache returned a non-nil error
    hist,        \* history: what the backend delivered, what the run saw
    ppc,         \* [Cache -> position of the prune goroutine]
    work,        \* [Cache -> Seq(frame)] : pending steps of filepath.WalkDir
    counter,     \* [Cache -> Nat] : deletedModDirs / deletedBuildFiles
    delFailed,   \* [Cache -> BOOLEAN] : an os.Remove / os.RemoveAll returned an error
    ops,         \* [Cache -> Seq(<<op, path>>)] : the Chmod / Remove / RemoveAll calls made
    dq,          \* the entry dependencyDir is called on: [path, isDir]
    dr,          \* Seq of the results of the calls of dependencyDir on dq
    usePIDFile,  \* cfg.usePIDFile: the run was started with -pid-file
    pidFile,     \* the PID stored in the PID file of os.TempDir(), 0 when there is no file
    ipc          \* [Inst -> position of a concurrently started instance in lines 153-184]

vars == <<fsys, readonly, undeletable, unreadable, unchmodable, unwatchable, enabled, pc, mainCancelled, watchCancelled,
          ret, exitCode, files, wpc, watches, evq, chClosed, usedFiles, wres, werr,
          hist, ppc, work, counter, delFailed, ops, dq, dr, usePIDFile, pidFile, ipc>>

fsVars    == <<fsys, readonly>>
faultVars == <<undeletable, unreadable, unchmodable, unwatchable>>
classVars == <<dq, dr>>
pidVars   == <<usePIDFile, pidFile, ipc>>
mainVars  == <<pc, mainCancelled, watchCancelled, ret, exitCode, files>>
watchVars == <<wpc, watches, evq, chClosed, usedFiles, wres, werr, hist>>
pruneVars == <<ppc, work, counter, delFailed, ops>>

Cache == {"mod", "build"}

\* os.Getpid() of the run, and the PID of another go-cache-prune process
MyPid == 1
OtherPid == 2

\* the instances of go-cache-prune started concurrently on one machine; the PID
\* of instance i is i
MaxInst == 3
Inst == 1..MaxInst
NoInst == [i \in Inst |-> "none"]

----------------------------------------------------------------------------
(* Names and paths *)

GoMod  == <<"go.mod">>
ModRoot   == <<"gomodcache">>
BuildRoot == <<"gocache">>

\* All names of the model in byte-wise lexical order, the order os.ReadDir
\* returns directory entries in.
NameOrder ==
    << <<"00">>, <<"a.go">>, <<"a1">>,
       <<"d1", "@", "v1.0.0">>, <<"d2", "@", "v0.0.0-20210101000000-abcdef123456">>,
       <<"d3">>, <<"d4", "@", "1.0", "+incompatible">>, <<"d5", "@", "v1.0.0">>,
       <<"e", "@", "notaversion">>,
       <<"go.mod">>, <<"gocache">>, <<"gomodcache">>,
       <<"new">>, <<"sub">>, <<"z.go">>, <<"z", "@", "v2.0.0">> >>

NameRank(n) == CHOOSE i \in 1..Len(NameOrder) : NameOrder[i] = n

Root(c) == IF c = "mod" THEN <<ModRoot>> ELSE <<BuildRoot>>

IsPrefix(p, q) == Len(p) <= Len(q) /\ SubSeq(q, 1, Len(p)) = p

\* filepath.Dir and d.Name()
Dir(p)  == SubSeq(p, 1, Len(p) - 1)
Base(p) == p[Len(p)]

Exists(tree, p) == \E n \in tree : n.p = p
IsDirIn(tree, p) == \E n \in tree : n.p = p /\ n.d

Children(tree, p) == {n \in tree : Len(n.p) = Len(p) + 1 /\ IsPrefix(p, n.p)}
Under(tree, p)    == {n \in tree : IsPrefix(p, n.p)}

\* the entries of S (of one directory) in the order of their names: the i-th
\* is the one with i - 1 entries before it
SortByName(S) ==
    [i \in 1..Cardinality(S) |->
        CHOOSE n \in S :
            Cardinality({o \in S : NameRank(Base(o.p)) < NameRank(Base(n.p))}) = i - 1]

\* os.ReadDir(p): the entries of p sorted by file name
ReadDir(tree, p) == SortByName(Children(tree, p))

\* the concatenation of the first k sequences of ss
RECURSIVE FlattenTo(_, _)
FlattenTo(ss, k) == IF k = 0 THEN <<>> ELSE FlattenTo(ss, k - 1) \o ss[k]

Flatten(ss) == CHOOSE r \in {FlattenTo(v, Len(v)) : v \in {ss}} : TRUE

\* The paths filepath.WalkDir visits below and including p on an unchanging tree
RECURSIVE Preorder(_, _)
Preorder(tree, p) ==
    LET kids == ReadDir(tree, p)
    IN  <<p>> \o Flatten([i \in 1..Len(kids) |->
                            IF kids[i].d THEN Preorder(tree, kids[i].p) ELSE <<kids[i].p>>])

----------------------------------------------------------------------------
(* dependencyDir, src/main.go:352 *)

\* golang.org/x/mod/semver.IsValid and module.IsPseudoVersion on the version
\* tokens of the model
SemverValid    == {"v1", "v1.0.0", "v2.0.0", "v0.0.0-20210101000000-abcdef123456"}
PseudoVersions == {"v0.0.0-20210101000000-abcdef123456"}

Contains(name, tok) == \E i \in 1..Len(name) : name[i] = tok

\* strings.Cut(name, "@"): what follows the first "@"
CutAfter(name, tok) ==
    LET i == CHOOSE k \in 1..Len(name) : name[k] = tok /\ \A j \in 1..(k - 1) : name[j] # tok
    IN  SubSeq(name, i + 1, Len(name))

HasSuffix(ver, tok) == Len(ver) > 0 /\ ver[Len(ver)] = tok
semverIsValid(ver)  == Len(ver) = 1 /\ ver[1] \in SemverValid
IsPseudoVersion(ver) == Len(ver) = 1 /\ ver[1] \in PseudoVersions

NotADep == [dir |-> <<>>, ok |-> FALSE]

\* no entry: dependencyDir is not being called
NoQuery == [path |-> <<>>, isDir |-> FALSE]

\* dependencyDir as it would be if every directory name holding an "@" made a unit
dependencyDirAnyVersion(path, isDir) ==
    IF isDir /\ Contains(Base(path), "@")
    THEN [dir |-> path, ok |-> TRUE]
    ELSE IF ~isDir /\ Base(path) = GoMod
         THEN [dir |-> Dir(path), ok |-> TRUE]
         ELSE NotADep

dependencyDir(path, isDir) ==
    IF isDir /\ Contains(Base(path), "@")
    THEN LET ver == CutAfter(Base(path), "@")
         IN  IF HasSuffix(ver, "+incompatible") \/ semverIsValid(ver) \/ IsPseudoVersion(ver)
             THEN [dir |-> path, ok |-> TRUE]
             ELSE NotADep
    ELSE IF ~isDir /\ Base(path) = GoMod
         THEN [dir |-> Dir(path), ok |-> TRUE]
         ELSE NotADep

----------------------------------------------------------------------------
(* The file system calls pruneCaches makes *)

\* Unlinking n needs write permission on its parent directory.
Blocked(ro, und, n) == n.p \in und \/ Dir(n.p) \in ro

\* os.RemoveAll(p): removes what it can below and including p; what is blocked
\* stays, with its ancestors.  RemoveAll of a missing path returns nil.
RemoveAllLeft(tree, ro, und, p) ==
    {n \in Under(tree, p) :
        \E m \in Under(tree, p) : IsPrefix(n.p, m.p) /\ Blocked(ro, und, m)}

\* os.Remove(p) of a non-directory succeeds
RemoveOk(tree, ro, und, p) ==
    /\ Exists(tree, p)
    /\ ~Blocked(ro, und, [p |-> p, d |-> FALSE])

\* The walk of chmodDir below and including p: os.Chmod(path, 0o777) on every
\* path visited, a warning when it fails; a directory whose ReadDir fails gets
\* the second callback, which warns, and its entries are not visited.
RECURSIVE ChmodWalk(_, _, _, _)
ChmodWalk(tree, unr, noch, p) ==
    LET self == << <<"chmod", p>> >> \o (IF p \in noch THEN << <<"warnChmod", p>> >> ELSE <<>>)
    IN  IF ~IsDirIn(tree, p) THEN self
        ELSE IF p \in unr THEN self \o << <<"warnWalk", p>> >>
        ELSE CHOOSE r \in
                 {self \o Flatten([i \in 1..Len(kids) |-> ChmodWalk(tree, unr, noch, kids[i].p)]) :
                      kids \in {ReadDir(tree, p)}} : TRUE

\* chmodDir(dir), src/main.go:447; a missing dir gives one callback with the
\* Lstat error, which warns.
ChmodLog(tree, unr, noch, dir) ==
    IF Exists(tree, dir)
    THEN ChmodWalk(tree, unr, noch, dir)
    ELSE << <<"warnWalk", dir>> >>

\* the paths of the "chmod" entries of a log
Chmodded(log) == {log[i][2] : i \in {j \in 1..Len(log) : log[j][1] = "chmod"}}

\* chmodDir as it would be if it changed the directory alone, without walking it
chmodDirTopOnly(st, dir) ==
    CHOOSE r \in {[st EXCEPT !.ro  = @ \ (Chmodded(log) \ st.noch),
                             !.log = @ \o log] :
                      log \in {IF Exists(st.tree, dir) THEN << <<"chmod", dir>> >>
                               ELSE << <<"warnWalk", dir>> >>}} : TRUE

chmodDir(st, dir) ==
    CHOOSE r \in {[st EXCEPT !.ro  = @ \ (Chmodded(log) \ st.noch),
                             !.log = @ \o log] :
                      log \in {ChmodLog(st.tree, st.unr, st.noch, dir)}} : TRUE

\* os.RemoveAll(depDir) followed by the error check and the counter, src/main.go:394-400
removeDepDir(st, und, depDir) ==
    LET left == RemoveAllLeft(st.tree, st.ro, und, depDir)
        gone == Under(st.tree, depDir) \ left
    IN  IF left # {}
        THEN [st EXCEPT !.tree = @ \ gone,
                        !.log  = @ \o << <<"removeAll", depDir>>, <<"warnDelete", depDir>> >>,
                        !.fail = TRUE]
        ELSE [st EXCEPT !.tree = @ \ gone,
                        !.log  = Append(@, <<"removeAll", depDir>>),
                        !.cnt  = @ + 1]

\* the module-cache branch as it would be without the lookup in modFiles
pruneModEntryNoLookup(st, und, used, path, isDir) ==
    LET dep == dependencyDir(path, isDir)
    IN  IF ~dep.ok THEN st
        ELSE CHOOSE r \in {removeDepDir(s1, und, dep.dir) : s1 \in {chmodDir(st, dep.dir)}} : TRUE

\* the module-cache branch of the walk function, src/main.go:383-400: chmodDir,
\* then os.RemoveAll on what chmodDir left
pruneModEntry(st, und, used, path, isDir) ==
    LET dep == dependencyDir(path, isDir)
    IN  IF ~dep.ok THEN st
        ELSE IF dep.dir \in used THEN st
        ELSE CHOOSE r \in {removeDepDir(s1, und, dep.dir) : s1 \in {chmodDir(st, dep.dir)}} : TRUE

\* the build-cache branch as it would be with the lookup in buildFiles inverted
pruneBuildEntryInverted(st, und, used, path, isDir) ==
    IF isDir THEN st
    ELSE IF path \notin used THEN st
    ELSE IF ~RemoveOk(st.tree, st.ro, und, path)
         THEN [st EXCEPT !.log  = @ \o << <<"remove", path>>, <<"warnDelete", path>> >>,
                         !.fail = TRUE]
    ELSE [st EXCEPT !.tree = @ \ {[p |-> path, d |-> FALSE]},
                    !.log  = Append(@, <<"remove", path>>),
                    !.cnt  = @ + 1]

\* the build-cache branch of the walk function, src/main.go:401-414
pruneBuildEntry(st, und, used, path, isDir) ==
    IF isDir THEN st
    ELSE IF path \in used THEN st
    ELSE IF ~RemoveOk(st.tree, st.ro, und, path)
         THEN [st EXCEPT !.log  = @ \o << <<"remove", path>>, <<"warnDelete", path>> >>,
                         !.fail = TRUE]
    ELSE [st EXCEPT !.tree = @ \ {[p |-> path, d |-> FALSE]},
                    !.log  = Append(@, <<"remove", path>>),
                    !.cnt  = @ + 1]

\* the function newWalkFunc returns, src/main.go:372-417.
\* err is "nil", "notexist" (errors.Is(err, os.ErrNotExist)) or "other".
walkFunc(c, st, und, used, path, isDir, err) ==
    IF err # "nil" /\ (c = "mod" /\ err # "notexist")
    THEN [st EXCEPT !.log = Append(@, <<"warnWalk", path>>)]
    ELSE IF path = Root(c) THEN st
    ELSE IF c = "mod" THEN pruneModEntry(st, und, used, path, isDir)
    ELSE pruneBuildEntry(st, und, used, path, isDir)

----------------------------------------------------------------------------
(* Errors and mainRetCode, src/main.go:50-60 and :119-121.  An error is the  *)
(* chain errors.As walks: the error itself, what it wraps, and so on; each   *)
(* link has its dynamic type.                                                *)

Nil == <<>>

\* errJustExit(n): a value of the type errJustExit (type errJustExit int)
ErrJustExit(n) == <<[type |-> "errJustExit", msg |-> "exit", code |-> n]>>

\* errors.New(msg)
ErrorsNew(msg) == <<[type |-> "*errors.errorString", msg |-> msg, code |-> 0]>>

\* fmt.Errorf(msg + ": %w", err)
Errorf(msg, err) == <<[type |-> "*fmt.wrapError", msg |-> msg, code |-> 0]>> \o err

\* errors.As(err, target) with target a pointer to a variable of type
\* targetType: the first link of the chain whose type is assignable to
\* targetType (for concrete types: is targetType)
ErrorsAs(err, targetType) == \E i \in 1..Len(err) : err[i].type = targetType

AsTarget(err, targetType) ==
    err[CHOOSE i \in 1..Len(err) :
            err[i].type = targetType /\ \A j \in 1..(i - 1) : err[j].type # targetType]

\* var exitCode *errJustExit; errors.As(err, &exitCode)
mainRetCode(err) ==
    IF err # Nil
    THEN IF ErrorsAs(err, "*errJustExit")
         THEN AsTarget(err, "*errJustExit").code
         ELSE 1
    ELSE 0

\* mainErr returns err and main exits with mainRetCode()
Return(err) ==
    /\ pc' = "done"
    /\ ret' = err
    /\ exitCode' = mainRetCode(err)

\* defer os.Remove(pidFile), src/main.go:183: registered once the PID file is
\* written, it runs when mainErr returns
DeferredRemove ==
    pidFile' = IF pc' = "done" /\ usePIDFile THEN 0 ELSE pidFile

----------------------------------------------------------------------------
(* pruneCaches, src/main.go:367: one goroutine per configured cache, each a *)
(* filepath.WalkDir whose steps are the frames of work[c]                   *)

Frame(ph, p, d) == [ph |-> ph, p |-> p, d |-> d]

PState(c) == [tree |-> fsys[c], ro |-> readonly[c], cnt |-> counter[c], log |-> ops[c],
              fail |-> delFailed[c], unr |-> unreadable[c], noch |-> unchmodable[c]]

\* what os.Remove / os.RemoveAll cannot unlink: the undeletable entries and the
\* entries of a directory that cannot be listed
Unremovable(c) ==
    undeletable[c] \cup {n.p : n \in {m \in fsys[c] : Dir(m.p) \in unreadable[c]}}

SetPState(c, st, w) ==
    /\ fsys'     = [fsys EXCEPT ![c] = st.tree]
    /\ readonly' = [readonly EXCEPT ![c] = st.ro]
    /\ counter'  = [counter EXCEPT ![c] = st.cnt]
    /\ ops'      = [ops EXCEPT ![c] = st.log]
    /\ delFailed' = [delFailed EXCEPT ![c] = st.fail]
    /\ work'     = [work EXCEPT ![c] = w]

\* filepath.WalkDir(root, fn) begins with os.Lstat(root)
WalkLstat(c) ==
    /\ pc = "prune" /\ ppc[c] = "walk"
    /\ work[c] # <<>> /\ Head(work[c]).ph = "lstat"
    /\ \E ps \in {PState(c)}, und \in {Unremovable(c)} :
       LET f == Head(work[c])
       IN  IF Exists(fsys[c], f.p)
           THEN SetPState(c, ps,
                          <<Frame("visit", f.p, IsDirIn(fsys[c], f.p))>> \o Tail(work[c]))
           ELSE \E st \in {walkFunc(c, ps, und, files[c], f.p, FALSE, "notexist")} :
                SetPState(c, st, Tail(work[c]))
    /\ UNCHANGED <<faultVars, classVars, pidVars, enabled, mainVars, watchVars, ppc>>

\* walkDir: the first call of fn for an entry, with the DirEntry the parent's
\* ReadDir returned
WalkVisit(c) ==
    /\ pc = "prune" /\ ppc[c] = "walk"
    /\ work[c] # <<>> /\ Head(work[c]).ph = "visit"
    /\ \E ps \in {PState(c)}, und \in {Unremovable(c)} :
       LET f == Head(work[c])
       IN  \E st \in {walkFunc(c, ps, und, files[c], f.p, f.d, "nil")} :
           SetPState(c, st, IF f.d THEN <<Frame("read", f.p, f.d)>> \o Tail(work[c])
                            ELSE Tail(work[c]))
    /\ UNCHANGED <<faultVars, classVars, pidVars, enabled, mainVars, watchVars, ppc>>

\* walkDir as it would be if the walk function returned the error it was given:
\* a failed ReadDir ends the whole walk
WalkReadDirAbort(c) ==
    /\ pc = "prune" /\ ppc[c] = "walk"
    /\ work[c] # <<>> /\ Head(work[c]).ph = "read"
    /\ \E ps \in {PState(c)}, und \in {Unremovable(c)} :
       LET f    == Head(work[c])
           kids == ReadDir(fsys[c], f.p)
       IN  IF IsDirIn(fsys[c], f.p) /\ f.p \in unreadable[c]
           THEN \E st \in {walkFunc(c, ps, und, files[c], f.p, f.d, "other")} :
                SetPState(c, st, <<>>)
           ELSE IF IsDirIn(fsys[c], f.p)
           THEN SetPState(c, ps,
                          [i \in 1..Len(kids) |-> Frame("visit", kids[i].p, kids[i].d)]
                              \o Tail(work[c]))
           ELSE \E st \in {walkFunc(c, ps, und, files[c], f.p, f.d, "notexist")} :
                SetPState(c, st, <<>>)
    /\ UNCHANGED <<faultVars, classVars, pidVars, enabled, mainVars, watchVars, ppc>>

\* walkDir: os.ReadDir of a directory; on failure the second call of fn, with
\* the error; otherwise its entries are walked in name order
WalkReadDir(c) ==
    /\ pc = "prune" /\ ppc[c] = "walk"
    /\ work[c] # <<>> /\ Head(work[c]).ph = "read"
    /\ \E ps \in {PState(c)}, und \in {Unremovable(c)} :
       LET f    == Head(work[c])
           kids == ReadDir(fsys[c], f.p)
       IN  IF IsDirIn(fsys[c], f.p) /\ f.p \in unreadable[c]
           THEN \E st \in {walkFunc(c, ps, und, files[c], f.p, f.d, "other")} :
                SetPState(c, st, Tail(work[c]))
           ELSE IF IsDirIn(fsys[c], f.p)
           THEN SetPState(c, ps,
                          [i \in 1..Len(kids) |-> Frame("visit", kids[i].p, kids[i].d)]
                              \o Tail(work[c]))
           ELSE \E st \in {walkFunc(c, ps, und, files[c], f.p, f.d, "notexist")} :
                SetPState(c, st, Tail(work[c]))
    /\ UNCHANGED <<faultVars, classVars, pidVars, enabled, mainVars, watchVars, ppc>>

\* the end of a walk as it would be if the walker stopped once mainCtx is
\* cancelled
WalkDoneOnAbort(c) ==
    /\ pc = "prune" /\ ppc[c] = "walk" /\ (work[c] = <<>> \/ mainCancelled)
    /\ ppc' = [ppc EXCEPT ![c] = "done"]
    /\ work' = [work EXCEPT ![c] = <<>>]
    /\ UNCHANGED <<fsVars, faultVars, classVars, pidVars, enabled, mainVars, watchVars, counter, delFailed, ops>>

\* WalkDir returned; the tally is reported and wg.Done() runs
WalkDone(c) ==
    /\ pc = "prune" /\ ppc[c] = "walk" /\ work[c] = <<>>
    /\ ppc' = [ppc EXCEPT ![c] = "done"]
    /\ work' = [work EXCEPT ![c] = <<>>]
    /\ UNCHANGED <<fsVars, faultVars, classVars, pidVars, enabled, mainVars, watchVars, counter, delFailed, ops>>

\* wg.Wait() of pruneCaches returns, mainErr returns nil, mainRetCode returns 0
PruneCachesReturn ==
    /\ pc = "prune"
    /\ \A c \in enabled : ppc[c] = "done"
    /\ Return(Nil)
    /\ DeferredRemove
    /\ UNCHANGED <<fsVars, faultVars, classVars, usePIDFile, ipc, enabled, mainCancelled, watchCancelled, files,
                   watchVars, pruneVars>>

\* A second pruneCaches call with the same usage sets, on what the first left
PruneAgain ==
    /\ pc = "done" /\ exitCode = 0 /\ hist.pass = 1
    /\ hist' = [hist EXCEPT !.pass = 2, !.tree1 = fsys]
    /\ pc' = "prune"
    /\ exitCode' = -1
    /\ ret' = Nil
    /\ ppc' = [c \in Cache |-> IF c \in enabled THEN "walk" ELSE "idle"]
    /\ work' = [c \in Cache |-> IF c \in enabled THEN <<Frame("lstat", Root(c), TRUE)>> ELSE <<>>]
    /\ counter' = [c \in Cache |-> 0]
    /\ ops' = [c \in Cache |-> <<>>]
    /\ UNCHANGED <<fsVars, faultVars, classVars, pidVars, enabled, mainCancelled, watchCancelled, files,
                   wpc, watches, evq, chClosed, usedFiles, wres, werr, delFailed>>

PruneNext ==
    \/ PruneAgain
    \/ \E c \in Cache : WalkLstat(c)
    \/ \E c \in Cache : WalkVisit(c)
    \/ \E c \in Cache : WalkReadDir(c)
    \/ \E c \in Cache : WalkDone(c)
    \/ PruneCachesReturn

----------------------------------------------------------------------------
(* Cache trees *)

MkTree(root, dirs, fls) ==
    {[p |-> root, d |-> TRUE]}
        \cup {[p |-> root \o q, d |-> TRUE] : q \in dirs}
        \cup {[p |-> root \o q, d |-> FALSE] : q \in fls}

D1 == <<"d1", "@", "v1.0.0">>
D2 == <<"d2", "@", "v0.0.0-20210101000000-abcdef123456">>
D3 == <<"d3">>
D4 == <<"d4", "@", "1.0", "+incompatible">>
D5 == <<"d5", "@", "v1.0.0">>
NotVer == <<"e", "@", "notaversion">>
Z2  == <<"z", "@", "v2.0.0">>
Sub == <<"sub">>
AGo == <<"a.go">>
ZGo == <<"z.go">>
A1  == <<"a1">>
B00 == <<"00">>

\* five sibling units: three named name@version, one recognised by go.mod alone
FlatTree ==
    MkTree(Root("mod"),
           {<<D1>>, <<D2>>, <<D3>>, <<D4>>, <<D5>>},
           {<<D1, GoMod>>, <<D1, AGo>>, <<D2, GoMod>>, <<D3, GoMod>>, <<D3, ZGo>>,
            <<D4, AGo>>, <<D5, GoMod>>})

\* a unit holding a directory with its own go.mod and a directory named name@version
NestedTree ==
    MkTree(Root("mod"),
           {<<D1>>, <<D1, Sub>>, <<D1, Z2>>},
           {<<D1, GoMod>>, <<D1, Sub, GoMod>>, <<D1, Sub, AGo>>, <<D1, Z2, AGo>>})

\* a go.mod directly in the cache root
RootModTree ==
    MkTree(Root("mod"), {<<D5>>}, {<<GoMod>>, <<AGo>>, <<D5, GoMod>>})

\* units below plain directories, and a directory whose version is not one
DeepTree ==
    MkTree(Root("mod"),
           {<<A1>>, <<A1, D1>>, <<NotVer>>},
           {<<A1, D1, AGo>>, <<NotVer, AGo>>, <<ZGo>>})

EmptyModTree == MkTree(Root("mod"), {}, {})

BuildTree ==
    MkTree(Root("build"),
           {<<B00>>, <<Sub>>},
           {<<B00, AGo>>, <<B00, ZGo>>, <<A1>>})

EmptyBuildTree == MkTree(Root("build"), {}, {})

ModTrees   == {FlatTree, NestedTree, RootModTree, DeepTree, EmptyModTree}
BuildTrees == {BuildTree, EmptyBuildTree}

\* the unit paths dependencyDir yields over the entries of a tree
UnitsOf(tree) == {dependencyDir(n.p, n.d).dir : n \in {m \in tree : dependencyDir(m.p, m.d).ok}}

\* Extracted modules are read-only: every directory at or below a unit; the
\* cache root itself is writable
ReadOnlyDirs(tree) ==
    {n.p : n \in {m \in tree : m.d /\ Len(m.p) > 1
                                  /\ \E u \in UnitsOf(tree) : IsPrefix(u, m.p)}}

Paths(tree) == {n.p : n \in tree}

----------------------------------------------------------------------------
(* pruneCaches on every tree and usage set *)

NoHist == [startup |-> "none", abortAtCheck |-> FALSE, sigInPrune |-> FALSE,
           gone |-> [c \in Cache |-> {}],
           setup |-> [c \in Cache |-> "none"], adds |-> [c \in Cache |-> <<>>],
           errLogged |-> [c \in Cache |-> FALSE],
           errVar |-> [watchModErr |-> "nil", watchBuildErr |-> "nil"],
           writers |-> [modFiles |-> {}, buildFiles |-> {}, watchModErr |-> {}, watchBuildErr |-> {}],
           tree0 |-> [c \in Cache |-> {}], tree1 |-> [c \in Cache |-> {}], pass |-> 1]

\* Usage sets: up to MaxUsage of the unit paths and the go.mod paths of a module
\* cache, respectively of the paths of a build cache
MaxUsage == 2

UpTo(S, k) == {U \in SUBSET S : Cardinality(U) <= k}

ModUsages(tree) ==
    UpTo(UnitsOf(tree) \cup {n.p : n \in {m \in tree : ~m.d /\ Base(m.p) = GoMod}}, MaxUsage)

BuildUsages(tree) == UpTo(Paths(tree), MaxUsage)

DefaultModUsage   == {Root("mod") \o <<D2>>, Root("mod") \o <<D4>>}
DefaultBuildUsage == {Root("build") \o <<B00, AGo>>}

InitPrune ==
    /\ enabled \in {{"mod"}, {"build"}, {"mod", "build"}}
    /\ \E mt \in ModTrees, bt \in BuildTrees :
          /\ fsys = [c \in Cache |-> IF c = "mod" THEN mt ELSE bt]
          /\ readonly = [c \in Cache |-> IF c = "mod" THEN ReadOnlyDirs(mt) ELSE {}]
          /\ \/ /\ bt = BuildTree
                /\ \E mu \in ModUsages(mt) :
                      files = [c \in Cache |-> IF c = "mod" THEN mu ELSE DefaultBuildUsage]
             \/ /\ mt = FlatTree
                /\ \E bu \in BuildUsages(bt) :
                      files = [c \in Cache |-> IF c = "mod" THEN DefaultModUsage ELSE bu]
          /\ hist = [NoHist EXCEPT !.tree0 = fsys, !.startup = "ok"]
    /\ undeletable = [c \in Cache |-> {}]
    /\ unreadable = [c \in Cache |-> {}]
    /\ unchmodable = [c \in Cache |-> {}]
    /\ unwatchable = [c \in Cache |-> {}]
    /\ pc = "prune"
    /\ mainCancelled = FALSE
    /\ watchCancelled = TRUE
    /\ ret = Nil
    /\ exitCode = -1
    /\ wpc = [c \in Cache |-> IF c \in enabled THEN "returned" ELSE "idle"]
    /\ watches = [c \in Cache |-> {}]
    /\ evq = [c \in Cache |-> <<>>]
    /\ chClosed = [c \in Cache |-> FALSE]
    /\ usedFiles = [c \in Cache |-> {}]
    /\ wres = files
    /\ werr = [c \in Cache |-> FALSE]
    /\ ppc = [c \in Cache |-> IF c \in enabled THEN "walk" ELSE "idle"]
    /\ work = [c \in Cache |-> IF c \in enabled THEN <<Frame("lstat", Root(c), TRUE)>> ELSE <<>>]
    /\ counter = [c \in Cache |-> 0]
    /\ delFailed = [c \in Cache |-> FALSE]
    /\ ops = [c \in Cache |-> <<>>]
    /\ dq = NoQuery
    /\ dr = <<>>
    /\ usePIDFile = FALSE
    /\ pidFile = 0
    /\ ipc = NoInst

SpecPrune == InitPrune /\ [][PruneNext]_vars

----------------------------------------------------------------------------
(* pruneCaches on a cache where some calls fail: entries that cannot be     *)
(* unlinked, directories that cannot be listed, entries that cannot be      *)
(* chmod-ed, and entries another process removes while the walk runs        *)

MaxFaults == 1   \* failing entries of a cache

RECURSIVE AtMost(_, _)
AtMost(S, k) ==
    IF k = 0 THEN {{}}
    ELSE LET prev == AtMost(S, k - 1)
         IN  prev \cup {U \cup {x} : U \in prev, x \in S}

\* the ways an entry of a tree can fail: <<kind, path>>
FaultSlots(tree) ==
    LET inner == {n \in tree : Len(n.p) > 1}
    IN  {<<"unlink", n.p>> : n \in inner}
            \cup {<<"readdir", n.p>> : n \in {m \in tree : m.d}}
            \cup {<<"chmod", n.p>> : n \in inner}

FaultPaths(F, kind) == {f[2] : f \in {g \in F : g[1] = kind}}

FaultCount(c) ==
    Cardinality(undeletable[c]) + Cardinality(unreadable[c]) + Cardinality(unchmodable[c])
        + Cardinality(hist.gone[c])

\* another process removes an entry, with what is below it, during the walk
Vanish(c) ==
    /\ pc = "prune" /\ ppc[c] = "walk"
    /\ FaultCount(c) < MaxFaults
    /\ \E n \in {m \in fsys[c] : Len(m.p) > 1} :
          /\ fsys' = [fsys EXCEPT ![c] = @ \ Under(@, n.p)]
          /\ hist' = [hist EXCEPT !.gone[c] = @ \cup {n.p}]
    /\ UNCHANGED <<readonly, faultVars, classVars, pidVars, enabled, mainVars, wpc, watches, evq, chClosed,
                   usedFiles, wres, werr, pruneVars>>

InitFaults ==
    /\ fsys = [c \in Cache |-> IF c = "mod" THEN FlatTree ELSE BuildTree]
    /\ readonly = [c \in Cache |-> IF c = "mod" THEN ReadOnlyDirs(FlatTree) ELSE {}]
    /\ files = [c \in Cache |-> IF c = "mod" THEN DefaultModUsage ELSE DefaultBuildUsage]
    /\ \E c0 \in Cache :
          /\ enabled = {c0}
          /\ \E F \in AtMost(FaultSlots(fsys[c0]), MaxFaults) :
                /\ undeletable = [c \in Cache |-> IF c = c0 THEN FaultPaths(F, "unlink") ELSE {}]
                /\ unreadable  = [c \in Cache |-> IF c = c0 THEN FaultPaths(F, "readdir") ELSE {}]
                /\ unchmodable = [c \in Cache |-> IF c = c0 THEN FaultPaths(F, "chmod") ELSE {}]
    /\ unwatchable = [c \in Cache |-> {}]
    /\ hist = [NoHist EXCEPT !.tree0 = fsys, !.startup = "ok"]
    /\ pc = "prune"
    /\ mainCancelled = FALSE
    /\ watchCancelled = TRUE
    /\ ret = Nil
    /\ exitCode = -1
    /\ wpc = [c \in Cache |-> IF c \in enabled THEN "returned" ELSE "idle"]
    /\ watches = [c \in Cache |-> {}]
    /\ evq = [c \in Cache |-> <<>>]
    /\ chClosed = [c \in Cache |-> FALSE]
    /\ usedFiles = [c \in Cache |-> {}]
    /\ wres = files
    /\ werr = [c \in Cache |-> FALSE]
    /\ ppc = [c \in Cache |-> IF c \in enabled THEN "walk" ELSE "idle"]
    /\ work = [c \in Cache |-> IF c \in enabled THEN <<Frame("lstat", Root(c), TRUE)>> ELSE <<>>]
    /\ counter = [c \in Cache |-> 0]
    /\ delFailed = [c \in Cache |-> FALSE]
    /\ ops = [c \in Cache |-> <<>>]
    /\ dq = NoQuery
    /\ dr = <<>>
    /\ usePIDFile = FALSE
    /\ pidFile = 0
    /\ ipc = NoInst

FaultNext ==
    \/ \E c \in Cache : Vanish(c)
    \/ \E c \in Cache : WalkLstat(c)
    \/ \E c \in Cache : WalkVisit(c)
    \/ \E c \in Cache : WalkReadDir(c)
    \/ \E c \in Cache : WalkDone(c)
    \/ PruneCachesReturn

SpecFaults == InitFaults /\ [][FaultNext]_vars

\* a step of pruneCaches: of one of its walker goroutines, or its return
PruneStep ==
    \/ \E c \in Cache : WalkLstat(c) \/ WalkVisit(c) \/ WalkReadDir(c) \/ WalkDone(c)
    \/ PruneCachesReturn

\* the scheduler runs the walker goroutines and the goroutine waiting in
\* wg.Wait(): while pruneCaches has a step to take, one is taken
FairFaults == SpecFaults /\ WF_vars(PruneStep)

----------------------------------------------------------------------------
(* dependencyDir on every entry name and kind *)

MaxCalls == 2   \* calls of dependencyDir on one entry

\* entry names: the names of the cache trees and further shapes of name@version
ClassNames ==
    {NameOrder[i] : i \in 1..Len(NameOrder)}
        \cup { <<"x", "@">>, <<"@", "v1.0.0">>, <<"a", "@", "b", "@", "v1.0.0">>,
               <<"x", "@", "v1">>, <<"x", "@", "1.0.0">>, <<"x", "@", "+incompatible">>,
               <<"x", "@", "v1.0.0", "+incompatible">>, <<"go.mod", "@", "v1.0.0">>,
               <<"x", "@", "v1.0.0", "@">> }

ClassDirs == {<<ModRoot>>, <<ModRoot, <<"d1", "@", "v1.0.0">> >>, <<ModRoot, <<"sub">> >>}

InitClassify ==
    /\ dq \in [path : {d \o <<n>> : d \in ClassDirs, n \in ClassNames}, isDir : BOOLEAN]
    /\ dr = <<>>
    /\ usePIDFile = FALSE
    /\ pidFile = 0
    /\ ipc = NoInst
    /\ enabled = {"mod"}
    /\ fsys = [c \in Cache |-> {}]
    /\ readonly = [c \in Cache |-> {}]
    /\ undeletable = [c \in Cache |-> {}]
    /\ unreadable = [c \in Cache |-> {}]
    /\ unchmodable = [c \in Cache |-> {}]
    /\ unwatchable = [c \in Cache |-> {}]
    /\ pc = "classify"
    /\ mainCancelled = FALSE
    /\ watchCancelled = FALSE
    /\ ret = <<>>
    /\ exitCode = -1
    /\ files = [c \in Cache |-> {}]
    /\ wpc = [c \in Cache |-> "idle"]
    /\ watches = [c \in Cache |-> {}]
    /\ evq = [c \in Cache |-> <<>>]
    /\ chClosed = [c \in Cache |-> FALSE]
    /\ usedFiles = [c \in Cache |-> {}]
    /\ wres = [c \in Cache |-> {}]
    /\ werr = [c \in Cache |-> FALSE]
    /\ hist = [NoHist EXCEPT !.startup = "ok"]
    /\ ppc = [c \in Cache |-> "idle"]
    /\ work = [c \in Cache |-> <<>>]
    /\ counter = [c \in Cache |-> 0]
    /\ delFailed = [c \in Cache |-> FALSE]
    /\ ops = [c \in Cache |-> <<>>]

\* one call dependencyDir(path, d)
Classify ==
    /\ pc = "classify"
    /\ Len(dr) < MaxCalls
    /\ dr' = Append(dr, dependencyDir(dq.path, dq.isDir))
    /\ UNCHANGED <<fsVars, faultVars, pidVars, dq, enabled, mainVars, watchVars, pruneVars>>

SpecClassify == InitClassify /\ [][Classify]_vars

----------------------------------------------------------------------------
(* mainErr up to the watch phase, src/main.go:123-190 *)

\* what can happen before watchCaches is called; each ends mainErr with the
\* error given, except "ok"
StartupOutcomes ==
    {"ok", "flags", "version", "signalled", "signalFailed", "alreadyRunning",
     "goenv", "pidFile"}

StartupError(o) ==
    CASE o = "flags"          -> ErrorsNew("either -prune-mod-cache or -prune-build-cache must be true")
      [] o = "version"        -> ErrJustExit(0)
      [] o = "signalled"      -> Nil
      [] o = "signalFailed"   -> Errorf("reading PID file", ErrorsNew("no such file"))
      [] o = "alreadyRunning" -> ErrorsNew("go-cache-prune is already running")
      [] o = "goenv"          -> Errorf("getting GOMODCACHE", ErrorsNew("running go env"))
      [] o = "pidFile"        -> Errorf("creating PID file", ErrorsNew("permission denied"))

\* the startup outcomes the PID file allows: -signal reads the PID from it
\* (line 132), the check of line 153-157 ends the run when it exists, and only
\* a run with -pid-file creates it (line 176-184)
StartupPossible(o) ==
    /\ (o = "signalled") => pidFile # 0
    /\ (o = "alreadyRunning") => (usePIDFile /\ pidFile # 0)
    /\ (o \in {"goenv", "pidFile", "ok"}) => ~(usePIDFile /\ pidFile # 0)
    /\ (o = "pidFile") => usePIDFile

\* parseFlags, the -signal mode, the PID file check, getGoEnv, the PID file and
\* the two signal.NotifyContext calls
Startup ==
    /\ pc = "start"
    /\ \E o \in StartupOutcomes :
          /\ StartupPossible(o)
          /\ hist' = [hist EXCEPT !.startup = o]
          /\ pidFile' = IF o = "ok" /\ usePIDFile THEN MyPid ELSE pidFile
          /\ IF o = "ok"
             THEN /\ pc' = "watch"
                  /\ UNCHANGED <<ret, exitCode>>
             ELSE Return(StartupError(o))
    /\ UNCHANGED <<fsVars, faultVars, classVars, usePIDFile, ipc, enabled, mainCancelled, watchCancelled, files,
                   wpc, watches, evq, chClosed, usedFiles, wres, werr, pruneVars>>

----------------------------------------------------------------------------
(* Signals: signal.NotifyContext, src/main.go:159 and :187 *)

\* Both contexts stay registered with signal.Notify until mainErr returns, so
\* a signal that arrives after its context is done is received and dropped.
\* hist.sigInPrune: a signal arrived while pruneCaches was running.

\* SIGHUP cancels watchCtx
SigHup ==
    /\ pc \notin {"start", "done"}
    /\ ~watchCancelled \/ (pc = "prune" /\ ~hist.sigInPrune)
    /\ watchCancelled' = TRUE
    /\ hist' = [hist EXCEPT !.sigInPrune = @ \/ pc = "prune"]
    /\ UNCHANGED <<fsVars, faultVars, classVars, pidVars, enabled, pc, mainCancelled, ret, exitCode, files,
                   wpc, watches, evq, chClosed, usedFiles, wres, werr, pruneVars>>

\* SIGINT / SIGTERM cancel mainCtx, and with it its child watchCtx
SigAbort ==
    /\ pc \notin {"start", "done"}
    /\ ~mainCancelled \/ (pc = "prune" /\ ~hist.sigInPrune)
    /\ mainCancelled' = TRUE
    /\ watchCancelled' = TRUE
    /\ hist' = [hist EXCEPT !.sigInPrune = @ \/ pc = "prune"]
    /\ UNCHANGED <<fsVars, faultVars, classVars, pidVars, enabled, pc, ret, exitCode, files,
                   wpc, watches, evq, chClosed, usedFiles, wres, werr, pruneVars>>

----------------------------------------------------------------------------
(* watchCache, src/main.go:271 *)

MaxChan == 1   \* events waiting on watcher.Events
MaxPaths == 2  \* distinct paths the backend reports to one session

\* the descriptors the initial walk adds, src/main.go:280-311: for the module
\* cache the unit of every entry dependencyDir recognises, for the build cache
\* every directory
InitialWatches(c, tree) ==
    IF c = "mod" THEN UnitsOf(tree)
    ELSE {n.p : n \in {m \in tree : m.d}}

\* The paths an event of a watch on directory w can name: w itself or an entry
\* directly in it
EventPaths(c) ==
    UNION {{w} \cup {n.p : n \in Children(fsys[c], w)} : w \in watches[c]}

\* watcher.AddDescriptor(p, mask): the watcher keeps one descriptor per path and
\* refuses a second one for the same path with ErrDescAlreadyExists (the case
\* the comment at src/main.go:290-293 describes); any other failure is "error"
AddDescriptor(descs, unw, p) ==
    IF p \in descs THEN "exists" ELSE IF p \in unw THEN "error" ELSE "ok"

\* the initial walk so far: the descriptors added, the AddDescriptor calls made
\* with their results, and whether the walk function returned an error
NoWalk == [descs |-> {}, calls |-> <<>>, err |-> FALSE]

\* one AddDescriptor call and the check of its error; dupOk: the error
\* ErrDescAlreadyExists is ignored (line 294), not dupOk: every error is returned
\* (line 304)
addWatch(st, unw, p, dupOk) ==
    LET r == AddDescriptor(st.descs, unw, p)
    IN  [descs |-> IF r = "ok" THEN st.descs \cup {p} ELSE st.descs,
         calls |-> Append(st.calls, <<p, r>>),
         err   |-> r = "error" \/ (r = "exists" /\ ~dupOk)]

\* the walk function as it would be without the check of line 294
watchVisitDupFatal(c, st, unw, path, isDir) ==
    IF c = "mod"
    THEN LET dep == dependencyDir(path, isDir)
         IN  IF dep.ok THEN addWatch(st, unw, dep.dir, FALSE) ELSE st
    ELSE IF isDir THEN addWatch(st, unw, path, FALSE) ELSE st

\* the walk function of watchCache, lines 280-311, called with err = nil; it
\* never returns filepath.SkipDir
watchVisit(c, st, unw, path, isDir) ==
    IF c = "mod"
    THEN LET dep == dependencyDir(path, isDir)
         IN  IF dep.ok THEN addWatch(st, unw, dep.dir, TRUE) ELSE st
    ELSE IF isDir THEN addWatch(st, unw, path, FALSE) ELSE st

\* filepath.WalkDir on entry p: the walk function is called with the entry,
\* and, if p is a directory that cannot be listed, a second time with the
\* error, which it returns (line 281-283); once an error is returned the walk
\* is over
watchEntry(c, tree, unr, unw, st, p) ==
    IF st.err THEN st
    ELSE LET v == watchVisit(c, st, unw, p, IsDirIn(tree, p))
         IN  IF ~v.err /\ p \in unr THEN [v EXCEPT !.err = TRUE] ELSE v

\* the walk over the first k entries of order
RECURSIVE watchWalkTo(_, _, _, _, _, _)
watchWalkTo(c, tree, unr, unw, order, k) ==
    IF k = 0 THEN NoWalk
    ELSE CHOOSE r \in {watchEntry(c, tree, unr, unw, pv, order[k]) :
                          pv \in {watchWalkTo(c, tree, unr, unw, order, k - 1)}} : TRUE

\* filepath.WalkDir(dir, ...) of watchCache: every entry in lexical pre-order; a
\* missing root is an error
initialWalk(c, tree, unr, unw) ==
    IF ~Exists(tree, Root(c)) THEN [NoWalk EXCEPT !.err = TRUE]
    ELSE CHOOSE r \in {watchWalkTo(c, tree, unr, unw, o, Len(o)) :
                          o \in {Preorder(tree, Root(c))}} : TRUE

\* NewWatcher, the initial walk and StartAll; any of them may fail, and then
\* watchCache returns (nil, err) before its deferred StopAll is set up: the
\* descriptors added so far stay with the watcher
\* the variables of watchCaches the goroutine of cache c assigns once its
\* watchCache call has returned, src/main.go:246-249 and :255-258; failed: the
\* call returned an error.  The build goroutine stores its wrapped error in
\* watchModErr (line 257).
goWrites(c, failed) ==
    IF c = "mod" THEN {"modFiles", "watchModErr"}
    ELSE {"buildFiles", "watchBuildErr"} \cup (IF failed THEN {"watchModErr"} ELSE {})

\* what the goroutine of cache c leaves in variable v: nil, the error of
\* watchCache as it was returned, or the error wrapped with the cache's name
goValue(c, failed, v) ==
    IF ~failed THEN "nil"
    ELSE IF c = "mod" THEN "wrapped mod"
    ELSE IF v = "watchBuildErr" THEN "unwrapped build"
    ELSE "wrapped build"

\* the value of an error variable after the goroutine of cache c stored new in
\* it: the goroutines do not synchronize with each other, so when the other
\* goroutine has stored into the same variable the two stores race, and what
\* the variable holds when wg.Wait() returns is either store or a mix of the
\* two words of the two interface values
StoredValues(h, c, v, new) ==
    IF h.writers[v] \ {c} = {} THEN {new} ELSE {h.errVar[v], new, "torn"}

\* the history after the goroutine of cache c made its assignments
GoReturn(h, c, failed) ==
    LET ws == goWrites(c, failed)
        wr == [v \in DOMAIN h.writers |-> IF v \in ws THEN h.writers[v] \cup {c} ELSE h.writers[v]]
    IN  {[h EXCEPT !.writers = wr, !.errVar = [watchModErr |-> m, watchBuildErr |-> b]] :
            m \in (IF "watchModErr" \in ws
                    THEN StoredValues(h, c, "watchModErr", goValue(c, failed, "watchModErr"))
                    ELSE {h.errVar.watchModErr}),
            b \in (IF "watchBuildErr" \in ws
                    THEN StoredValues(h, c, "watchBuildErr", goValue(c, failed, "watchBuildErr"))
                    ELSE {h.errVar.watchBuildErr})}

\* errors.Join(watchModErr, watchBuildErr) != nil, src/main.go:263-264
joinedErr(h) == h.errVar.watchModErr # "nil" \/ h.errVar.watchBuildErr # "nil"

WatchSetup(c) ==
    /\ pc = "watch" /\ wpc[c] = "setup"
    /\ \E o \in {"newWatcher", "startAll", "ok"},
          w \in {initialWalk(c, fsys[c], unreadable[c], unwatchable[c])} :
          \E out \in {IF o = "newWatcher" THEN o ELSE IF w.err THEN "walk" ELSE o} :
             /\ \E h1 \in {[hist EXCEPT !.setup[c] = out,
                                         !.adds[c] = IF out = "newWatcher" THEN <<>> ELSE w.calls]} :
                   hist' \in (IF out = "ok" THEN {h1} ELSE GoReturn(h1, c, TRUE))
             /\ watches' = [watches EXCEPT ![c] = IF out = "newWatcher" THEN {} ELSE w.descs]
             /\ IF out = "ok"
                THEN /\ wpc' = [wpc EXCEPT ![c] = "loop"]
                     /\ UNCHANGED <<wres, werr>>
                ELSE /\ wpc' = [wpc EXCEPT ![c] = "returned"]
                     /\ werr' = [werr EXCEPT ![c] = TRUE]
                     /\ wres' = [wres EXCEPT ![c] = {}]
    /\ UNCHANGED <<fsVars, faultVars, classVars, pidVars, enabled, mainVars, evq, chClosed, usedFiles,
                   pruneVars>>

\* the goroutine watcher.Watch() makes an event available on watcher.Events;
\* early: it did so before watchCtx was cancelled
BackendDeliver(c) ==
    /\ wpc[c] = "loop"
    /\ Len(evq[c]) < MaxChan
    /\ \E p \in EventPaths(c) :
          /\ Cardinality(usedFiles[c] \cup {evq[c][i].p : i \in 1..Len(evq[c])} \cup {p}) <= MaxPaths
          /\ evq' = [evq EXCEPT ![c] = Append(@, [p |-> p, early |-> ~watchCancelled])]
    /\ UNCHANGED <<fsVars, faultVars, classVars, pidVars, enabled, mainVars, wpc, watches, chClosed, usedFiles,
                   wres, werr, hist, pruneVars>>

\* the event case as it would be if it kept the path of the last event only
LoopRecvEventLatest(c) ==
    /\ wpc[c] = "loop" /\ evq[c] # <<>>
    /\ usedFiles' = [usedFiles EXCEPT ![c] = {Head(evq[c]).p}]
    /\ evq' = [evq EXCEPT ![c] = Tail(@)]
    /\ UNCHANGED <<fsVars, faultVars, classVars, pidVars, enabled, mainVars, wpc, watches, chClosed,
                   wres, werr, hist, pruneVars>>

\* the event case as it would be if the two sessions shared one usedFiles map
LoopRecvEventShared(c) ==
    /\ wpc[c] = "loop" /\ evq[c] # <<>>
    /\ usedFiles' = [o \in Cache |-> usedFiles[o] \cup {Head(evq[c]).p}]
    /\ evq' = [evq EXCEPT ![c] = Tail(@)]
    /\ UNCHANGED <<fsVars, faultVars, classVars, pidVars, enabled, mainVars, wpc, watches, chClosed,
                   wres, werr, hist, pruneVars>>

\* case event, ok := <-watcher.Events with ok: usedFiles[event.Path] = struct{}{}
LoopRecvEvent(c) ==
    /\ wpc[c] = "loop" /\ evq[c] # <<>>
    /\ usedFiles' = [usedFiles EXCEPT ![c] = @ \cup {Head(evq[c]).p}]
    /\ evq' = [evq EXCEPT ![c] = Tail(@)]
    /\ UNCHANGED <<fsVars, faultVars, classVars, pidVars, enabled, mainVars, wpc, watches, chClosed,
                   wres, werr, hist, pruneVars>>

\* the error case as it would be if a reported error ended the session
LoopRecvErrorFatal(c) ==
    /\ wpc[c] = "loop"
    /\ hist' = [hist EXCEPT !.errLogged[c] = TRUE]
    /\ wpc' = [wpc EXCEPT ![c] = "stopping"]
    /\ wres' = [wres EXCEPT ![c] = {}]
    /\ werr' = [werr EXCEPT ![c] = TRUE]
    /\ UNCHANGED <<fsVars, faultVars, classVars, pidVars, enabled, mainVars, watches, evq, chClosed,
                   usedFiles, pruneVars>>

\* case err, ok := <-watcher.Errors with ok: actions.Errorf, and the loop goes on
LoopRecvError(c) ==
    /\ wpc[c] = "loop"
    /\ hist' = [hist EXCEPT !.errLogged[c] = TRUE]
    /\ UNCHANGED <<fsVars, faultVars, classVars, pidVars, enabled, mainVars, wpc, watches, evq, chClosed,
                   usedFiles, wres, werr, pruneVars>>

\* the backend closes watcher.Events or watcher.Errors and the select receives
\* from the closed channel: return nil, errors.New("... channel closed")
LoopChanClosed(c) ==
    /\ wpc[c] = "loop"
    /\ chClosed' = [chClosed EXCEPT ![c] = TRUE]
    /\ wpc' = [wpc EXCEPT ![c] = "stopping"]
    /\ wres' = [wres EXCEPT ![c] = {}]
    /\ werr' = [werr EXCEPT ![c] = TRUE]
    /\ UNCHANGED <<fsVars, faultVars, classVars, pidVars, enabled, mainVars, watches, evq, usedFiles,
                   hist, pruneVars>>

\* the Done case as it would be if the loop returned without its context being done
LoopCancelAnytime(c) ==
    /\ wpc[c] = "loop"
    /\ wpc' = [wpc EXCEPT ![c] = "stopping"]
    /\ wres' = [wres EXCEPT ![c] = usedFiles[c]]
    /\ werr' = [werr EXCEPT ![c] = FALSE]
    /\ UNCHANGED <<fsVars, faultVars, classVars, pidVars, enabled, mainVars, watches, evq, chClosed, usedFiles,
                   hist, pruneVars>>

\* case <-ctx.Done(): return usedFiles, nil
LoopCancel(c) ==
    /\ wpc[c] = "loop" /\ watchCancelled
    /\ wpc' = [wpc EXCEPT ![c] = "stopping"]
    /\ wres' = [wres EXCEPT ![c] = usedFiles[c]]
    /\ werr' = [werr EXCEPT ![c] = FALSE]
    /\ UNCHANGED <<fsVars, faultVars, classVars, pidVars, enabled, mainVars, watches, evq, chClosed, usedFiles,
                   hist, pruneVars>>

\* the deferred watcher.StopAll(), then watchCache returns and wg.Done() runs
StopAll(c) ==
    /\ wpc[c] = "stopping"
    /\ watches' = [watches EXCEPT ![c] = {}]
    /\ evq' = [evq EXCEPT ![c] = <<>>]
    /\ usedFiles' = [usedFiles EXCEPT ![c] = {}]
    /\ wpc' = [wpc EXCEPT ![c] = "returned"]
    /\ hist' \in GoReturn(hist, c, werr[c])
    /\ UNCHANGED <<fsVars, faultVars, classVars, pidVars, enabled, mainVars, chClosed, wres, werr,
                   pruneVars>>

----------------------------------------------------------------------------
(* watchCaches and mainErr, src/main.go:186-210 and :229-269 *)

\* watchCaches as it would be without wg.Wait(): it returns when one session has
WatchCachesReturnNoWait ==
    /\ pc = "watch"
    /\ \E c \in enabled : wpc[c] = "returned"
    /\ IF joinedErr(hist)
       THEN /\ Return(Errorf("watching caches", ErrorsNew("watch session failed")))
            /\ UNCHANGED files
       ELSE /\ pc' = "check"
            /\ files' = [c \in Cache |-> IF c \in enabled THEN wres[c] ELSE {}]
            /\ UNCHANGED <<ret, exitCode>>
    /\ DeferredRemove
    /\ UNCHANGED <<fsVars, faultVars, classVars, usePIDFile, ipc, enabled, mainCancelled, watchCancelled, watchVars,
                   pruneVars>>

\* watchCaches and line 192-195 as they would be if the joined error were not
\* looked at
WatchCachesReturnUnchecked ==
    /\ pc = "watch"
    /\ \A c \in enabled : wpc[c] = "returned"
    /\ pc' = "check"
    /\ files' = [c \in Cache |-> IF c \in enabled THEN wres[c] ELSE {}]
    /\ UNCHANGED <<ret, exitCode>>
    /\ DeferredRemove
    /\ UNCHANGED <<fsVars, faultVars, classVars, usePIDFile, ipc, enabled, mainCancelled, watchCancelled, watchVars,
                   pruneVars>>

\* wg.Wait() returns; errors.Join of the two errors; mainErr line 192-195
WatchCachesReturn ==
    /\ pc = "watch"
    /\ \A c \in enabled : wpc[c] = "returned"
    /\ IF joinedErr(hist)
       THEN /\ Return(Errorf("watching caches", ErrorsNew("watch session failed")))
            /\ UNCHANGED files
       ELSE /\ pc' = "check"
            /\ files' = [c \in Cache |-> IF c \in enabled THEN wres[c] ELSE {}]
            /\ UNCHANGED <<ret, exitCode>>
    /\ DeferredRemove
    /\ UNCHANGED <<fsVars, faultVars, classVars, usePIDFile, ipc, enabled, mainCancelled, watchCancelled, watchVars,
                   pruneVars>>

\* the start of the walkers as it would be without the tests of modCache and
\* buildCache against ""
StartWalkersAll ==
    /\ ppc' = [c \in Cache |-> "walk"]
    /\ work' = [c \in Cache |-> <<Frame("lstat", Root(c), TRUE)>>]

\* pruneCaches line 420-444: a walker goroutine for every cache with a root
StartWalkers ==
    /\ ppc' = [c \in Cache |-> IF c \in enabled THEN "walk" ELSE "idle"]
    /\ work' = [c \in Cache |-> IF c \in enabled THEN <<Frame("lstat", Root(c), TRUE)>> ELSE <<>>]

\* lines 198-208 as they would be if a recorded usage did not lead to pruneCaches
MainCheckNoPrune ==
    /\ pc = "check"
    /\ hist' = [hist EXCEPT !.abortAtCheck = mainCancelled]
    /\ Return(ErrJustExit(2))
    /\ UNCHANGED <<ppc, work>>
    /\ DeferredRemove
    /\ UNCHANGED <<fsVars, faultVars, classVars, usePIDFile, ipc, enabled, mainCancelled, watchCancelled, files,
                   wpc, watches, evq, chClosed, usedFiles, wres, werr,
                   counter, delFailed, ops>>

\* lines 198-208 as they would be without the check of mainCtx.Err()
MainCheckNoAbort ==
    /\ pc = "check"
    /\ hist' = [hist EXCEPT !.abortAtCheck = mainCancelled]
    /\ IF files["mod"] = {} /\ files["build"] = {}
       THEN /\ Return(ErrJustExit(2))
            /\ UNCHANGED <<ppc, work>>
       ELSE /\ pc' = "prune"
            /\ StartWalkers
            /\ UNCHANGED <<ret, exitCode>>
    /\ DeferredRemove
    /\ UNCHANGED <<fsVars, faultVars, classVars, usePIDFile, ipc, enabled, mainCancelled, watchCancelled, files,
                   wpc, watches, evq, chClosed, usedFiles, wres, werr,
                   counter, delFailed, ops>>

\* lines 198-208 as they would be if one empty usage set were enough to skip
\* pruneCaches
MainCheckEitherEmpty ==
    /\ pc = "check"
    /\ hist' = [hist EXCEPT !.abortAtCheck = mainCancelled]
    /\ IF mainCancelled
       THEN /\ Return(ErrJustExit(2))
            /\ UNCHANGED <<ppc, work>>
       ELSE IF files["mod"] = {} \/ files["build"] = {}
       THEN /\ Return(ErrJustExit(2))
            /\ UNCHANGED <<ppc, work>>
       ELSE /\ pc' = "prune"
            /\ StartWalkers
            /\ UNCHANGED <<ret, exitCode>>
    /\ DeferredRemove
    /\ UNCHANGED <<fsVars, faultVars, classVars, usePIDFile, ipc, enabled, mainCancelled, watchCancelled, files,
                   wpc, watches, evq, chClosed, usedFiles, wres, werr,
                   counter, delFailed, ops>>

\* mainErr lines 198-208: the abort check, the nothing-used check, pruneCaches
MainCheck ==
    /\ pc = "check"
    /\ hist' = [hist EXCEPT !.abortAtCheck = mainCancelled]
    /\ IF mainCancelled
       THEN /\ Return(ErrJustExit(2))
            /\ UNCHANGED <<ppc, work>>
       ELSE IF files["mod"] = {} /\ files["build"] = {}
       THEN /\ Return(ErrJustExit(2))
            /\ UNCHANGED <<ppc, work>>
       ELSE /\ pc' = "prune"
            /\ StartWalkers
            /\ UNCHANGED <<ret, exitCode>>
    /\ DeferredRemove
    /\ UNCHANGED <<fsVars, faultVars, classVars, usePIDFile, ipc, enabled, mainCancelled, watchCancelled, files,
                   wpc, watches, evq, chClosed, usedFiles, wres, werr,
                   counter, delFailed, ops>>

----------------------------------------------------------------------------
(* The whole run *)

RunModTree ==
    MkTree(Root("mod"), {<<D1>>}, {<<D1, GoMod>>})

RunBuildTree ==
    MkTree(Root("build"), {}, {<<A1>>})

\* the entries of the module cache that cannot be unlinked: none, or the go.mod
RunFaults == {{}, {Root("mod") \o <<D1, GoMod>>}}

Init ==
    /\ enabled \in {{"mod"}, {"build"}, {"mod", "build"}}
    /\ fsys = [c \in Cache |-> IF c = "mod" THEN RunModTree ELSE RunBuildTree]
    /\ readonly = [c \in Cache |-> IF c = "mod" THEN ReadOnlyDirs(RunModTree) ELSE {}]
    /\ \E U \in RunFaults : undeletable = [c \in Cache |-> IF c = "mod" THEN U ELSE {}]
    /\ unreadable = [c \in Cache |-> {}]
    /\ unchmodable = [c \in Cache |-> {}]
    /\ unwatchable = [c \in Cache |-> {}]
    /\ pc = "start"
    /\ mainCancelled = FALSE
    /\ watchCancelled = FALSE
    /\ ret = Nil
    /\ exitCode = -1
    /\ files = [c \in Cache |-> {}]
    /\ wpc = [c \in Cache |-> IF c \in enabled THEN "setup" ELSE "idle"]
    /\ watches = [c \in Cache |-> {}]
    /\ evq = [c \in Cache |-> <<>>]
    /\ chClosed = [c \in Cache |-> FALSE]
    /\ usedFiles = [c \in Cache |-> {}]
    /\ wres = [c \in Cache |-> {}]
    /\ werr = [c \in Cache |-> FALSE]
    /\ hist = [NoHist EXCEPT !.tree0 = fsys]
    /\ ppc = [c \in Cache |-> "idle"]
    /\ work = [c \in Cache |-> <<>>]
    /\ counter = [c \in Cache |-> 0]
    /\ delFailed = [c \in Cache |-> FALSE]
    /\ ops = [c \in Cache |-> <<>>]
    /\ dq = NoQuery
    /\ dr = <<>>
    /\ usePIDFile = TRUE
    /\ pidFile \in {0, OtherPid}
    /\ ipc = NoInst

Next ==
    \/ Startup
    \/ SigHup
    \/ SigAbort
    \/ \E c \in Cache : WatchSetup(c)
    \/ \E c \in Cache : BackendDeliver(c)
    \/ \E c \in Cache : LoopRecvEvent(c)
    \/ \E c \in Cache : LoopChanClosed(c)
    \/ \E c \in Cache : LoopCancel(c)
    \/ \E c \in Cache : StopAll(c)
    \/ WatchCachesReturn
    \/ MainCheck
    \/ \E c \in Cache : WalkLstat(c)
    \/ \E c \in Cache : WalkVisit(c)
    \/ \E c \in Cache : WalkReadDir(c)
    \/ \E c \in Cache : WalkDone(c)
    \/ PruneCachesReturn

Spec == Init /\ [][Next]_vars

\* the scheduler runs a goroutine that can take a step: the select of a session
\* whose context is done takes the Done case, the deferred StopAll runs
FairSpec ==
    /\ Spec
    /\ \A c \in Cache : WF_vars(LoopCancel(c)) /\ WF_vars(StopAll(c))

\* the setup of a session, a step of the main goroutine after the sessions
\* returned, or a step of pruneCaches
RunStep ==
    \/ \E c \in Cache : WatchSetup(c)
    \/ WatchCachesReturn
    \/ MainCheck
    \/ PruneStep

\* and the scheduler runs the session goroutines from their start, the main
\* goroutine and the walker goroutines
FairRun == FairSpec /\ WF_vars(RunStep)

----------------------------------------------------------------------------
(* The watch phase on every tree: registrations that fail, directories that *)
(* cannot be listed, errors the backend reports, and entries the go command *)
(* creates in the build cache while the sessions watch                      *)

NewDir == <<"new">>

\* what the go command may add to cache c: a directory in the root and a file
\* in that directory
Creatable(c) ==
    IF c = "build"
    THEN {[p |-> Root(c) \o <<NewDir>>, d |-> TRUE], [p |-> Root(c) \o <<NewDir, AGo>>, d |-> FALSE]}
    ELSE {}

ToolCreate(c) ==
    /\ pc = "watch" /\ c \in enabled
    /\ \E n \in Creatable(c) :
          /\ n \notin fsys[c]
          /\ IsDirIn(fsys[c], Dir(n.p))
          /\ fsys' = [fsys EXCEPT ![c] = @ \cup {n}]
    /\ UNCHANGED <<readonly, faultVars, classVars, pidVars, enabled, mainVars, watchVars, pruneVars>>

\* the ways the setup of a session on a tree can fail: <<kind, path>>
WatchSlots(c, tree) ==
    {<<"watch", p>> : p \in InitialWatches(c, tree)}
        \cup {<<"readdir", n.p>> : n \in {m \in tree : m.d}}

WatchModTrees == {NestedTree, RootModTree, DeepTree, EmptyModTree}

\* one configured cache, on every tree and with failing entries
InitWatch ==
    /\ \E c0 \in Cache :
          /\ enabled = {c0}
          /\ \E mt \in WatchModTrees :
                /\ (c0 = "build") => (mt = EmptyModTree)
                /\ fsys = [c \in Cache |-> IF c = "mod" THEN mt ELSE BuildTree]
          /\ \E F \in AtMost(WatchSlots(c0, fsys[c0]), MaxFaults) :
                /\ unwatchable = [c \in Cache |-> IF c = c0 THEN FaultPaths(F, "watch") ELSE {}]
                /\ unreadable  = [c \in Cache |-> IF c = c0 THEN FaultPaths(F, "readdir") ELSE {}]
    /\ readonly = [c \in Cache |-> IF c = "mod" THEN ReadOnlyDirs(fsys[c]) ELSE {}]
    /\ undeletable = [c \in Cache |-> {}]
    /\ unchmodable = [c \in Cache |-> {}]
    /\ pc = "watch"
    /\ mainCancelled = FALSE
    /\ watchCancelled = FALSE
    /\ ret = Nil
    /\ exitCode = -1
    /\ files = [c \in Cache |-> {}]
    /\ wpc = [c \in Cache |-> IF c \in enabled THEN "setup" ELSE "idle"]
    /\ watches = [c \in Cache |-> {}]
    /\ evq = [c \in Cache |-> <<>>]
    /\ chClosed = [c \in Cache |-> FALSE]
    /\ usedFiles = [c \in Cache |-> {}]
    /\ wres = [c \in Cache |-> {}]
    /\ werr = [c \in Cache |-> FALSE]
    /\ hist = [NoHist EXCEPT !.tree0 = fsys, !.startup = "ok"]
    /\ ppc = [c \in Cache |-> "idle"]
    /\ work = [c \in Cache |-> <<>>]
    /\ counter = [c \in Cache |-> 0]
    /\ delFailed = [c \in Cache |-> FALSE]
    /\ ops = [c \in Cache |-> <<>>]
    /\ dq = NoQuery
    /\ dr = <<>>
    /\ usePIDFile = FALSE
    /\ pidFile = 0
    /\ ipc = NoInst

WatchNext ==
    \/ SigHup
    \/ \E c \in Cache : ToolCreate(c)
    \/ \E c \in Cache : WatchSetup(c)
    \/ \E c \in Cache : BackendDeliver(c)
    \/ \E c \in Cache : LoopRecvEvent(c)
    \/ \E c \in Cache : LoopRecvError(c)
    \/ \E c \in Cache : LoopChanClosed(c)
    \/ \E c \in Cache : LoopCancel(c)
    \/ \E c \in Cache : StopAll(c)
    \/ WatchCachesReturn
    \/ MainCheck

SpecWatch == InitWatch /\ [][WatchNext]_vars

----------------------------------------------------------------------------
(* Instances started concurrently with -pid-file on one machine: the check  *)
(* of the PID file, its creation and its removal, src/main.go:153-184, each *)
(* a step of its own, interleaved with the steps of the other instances     *)

\* os.Stat(pidFile), line 153-157: the instance ends when the file exists
PidCheck(i) ==
    /\ ipc[i] = "start"
    /\ ipc' = [ipc EXCEPT ![i] = IF pidFile # 0 THEN "alreadyRunning" ELSE "checked"]
    /\ UNCHANGED <<fsVars, faultVars, classVars, usePIDFile, pidFile, enabled, mainVars, watchVars,
                   pruneVars>>

\* os.WriteFile(pidFile, pid, 0o440), line 176-184: the file is opened with
\* O_WRONLY|O_CREATE|O_TRUNC, so it is created when it is missing; an existing
\* file, which has mode 0440, is truncated and rewritten by a process that may
\* override its permissions (priv: it runs as root), and the open fails for
\* any other process.  After the write the instance goes on to watchCaches.
PidCreate(i) ==
    /\ ipc[i] = "checked"
    /\ \E priv \in BOOLEAN :
          IF pidFile = 0 \/ priv
          THEN /\ pidFile' = i
               /\ ipc' = [ipc EXCEPT ![i] = "running"]
          ELSE /\ ipc' = [ipc EXCEPT ![i] = "failed"]
               /\ UNCHANGED pidFile
    /\ UNCHANGED <<fsVars, faultVars, classVars, usePIDFile, enabled, mainVars, watchVars, pruneVars>>

\* mainErr returns after the watch and the prune phase; the deferred
\* os.Remove(pidFile) of line 183 removes the file, whoever wrote it last
PidExit(i) ==
    /\ ipc[i] = "running"
    /\ pidFile' = 0
    /\ ipc' = [ipc EXCEPT ![i] = "done"]
    /\ UNCHANGED <<fsVars, faultVars, classVars, usePIDFile, enabled, mainVars, watchVars, pruneVars>>

InitPid ==
    /\ usePIDFile = TRUE
    /\ pidFile = 0
    /\ ipc = [i \in Inst |-> "start"]
    /\ enabled = {"mod"}
    /\ fsys = [c \in Cache |-> IF c = "mod" THEN RunModTree ELSE RunBuildTree]
    /\ readonly = [c \in Cache |-> IF c = "mod" THEN ReadOnlyDirs(RunModTree) ELSE {}]
    /\ undeletable = [c \in Cache |-> {}]
    /\ unreadable = [c \in Cache |-> {}]
    /\ unchmodable = [c \in Cache |-> {}]
    /\ unwatchable = [c \in Cache |-> {}]
    /\ pc = "start"
    /\ mainCancelled = FALSE
    /\ watchCancelled = FALSE
    /\ ret = Nil
    /\ exitCode = -1
    /\ files = [c \in Cache |-> {}]
    /\ wpc = [c \in Cache |-> "idle"]
    /\ watches = [c \in Cache |-> {}]
    /\ evq = [c \in Cache |-> <<>>]
    /\ chClosed = [c \in Cache |-> FALSE]
    /\ usedFiles = [c \in Cache |-> {}]
    /\ wres = [c \in Cache |-> {}]
    /\ werr = [c \in Cache |-> FALSE]
    /\ hist = [NoHist EXCEPT !.tree0 = fsys]
    /\ ppc = [c \in Cache |-> "idle"]
    /\ work = [c \in Cache |-> <<>>]
    /\ counter = [c \in Cache |-> 0]
    /\ delFailed = [c \in Cache |-> FALSE]
    /\ ops = [c \in Cache |-> <<>>]
    /\ dq = NoQuery
    /\ dr = <<>>

PidNext ==
    \/ \E i \in Inst : PidCheck(i)
    \/ \E i \in Inst : PidCreate(i)
    \/ \E i \in Inst : PidExit(i)

SpecPid == InitPid /\ [][PidNext]_vars

----------------------------------------------------------------------------
(* What a walk leaves *)

\* the units of the module cache as it was before the first pass
Units0 == UnitsOf(hist.tree0["mod"])

\* the entries a failure was on: they could not be unlinked, listed or
\* chmod-ed, or another process removed them
Failing(c) == undeletable[c] \cup unreadable[c] \cup unchmodable[c] \cup hist.gone[c]

\* p is apart from every failing entry: none is p, below p or above p
Apart(c, p) == \A q \in Failing(c) : ~IsPrefix(p, q) /\ ~IsPrefix(q, p)

\* every unit, respectively every build-cache entry, that is apart from the
\* failing entries was pruned or retained according to the usage set
PrunedByUsage(c) ==
    IF c = "mod"
    THEN \A u \in {v \in Units0 : Apart("mod", v)} :
            IF u \in files["mod"]
            THEN Under(hist.tree0["mod"], u) \subseteq fsys["mod"]
            ELSE Under(fsys["mod"], u) = {}
    ELSE \A n \in {m \in hist.tree0["build"] : Apart("build", m.p)} :
            IF n.d \/ n.p \in files["build"]
            THEN n \in fsys["build"]
            ELSE n \notin fsys["build"]

----------------------------------------------------------------------------
(* Properties of the run *)

NoPruneYet ==
    /\ \A c \in Cache : ppc[c] = "idle" /\ ops[c] = <<>>
    /\ fsys = hist.tree0

OwnersOf(tree, S) == {u \in UnitsOf(tree) : \E p \in S : IsPrefix(u, p)}

\* C2: every module-cache unit for which an event was recorded during the
\* watch window, whatever entry of the unit the event names, is still there,
\* whole, after the prune phase.
C2_UsedUnitsRetained ==
    (pc = "done" /\ exitCode = 0) =>
        \A u \in OwnersOf(hist.tree0["mod"], files["mod"]) :
            Under(hist.tree0["mod"], u) \subseteq fsys["mod"]

C7_UsageByUnit ==
    (wpc["mod"] \in {"stopping", "returned"} /\ ~werr["mod"]) =>
        /\ wres["mod"] \subseteq UnitsOf(fsys["mod"])
        /\ Cardinality(wres["mod"]) = Cardinality(OwnersOf(fsys["mod"], wres["mod"]))

\* C8: every event made available on watcher.Events before the context was
\* cancelled is in the usage set watchCache returns: when the loop returns on
\* cancellation no such event is still waiting on the channel.
C8_NoEventLoss ==
    \A c \in Cache :
        (wpc[c] = "stopping" /\ ~werr[c]) =>
            \A i \in 1..Len(evq[c]) : ~evq[c][i].early

\* C9: a session that entered its loop leaves it only when its context is
\* cancelled, returning the accumulated usage set and a nil error, or when a
\* backend channel is closed; and once the context is cancelled it returns.
C9_SessionLifetime ==
    /\ [][\A c \in Cache :
            (wpc[c] = "loop" /\ wpc'[c] # "loop") =>
                \/ watchCancelled /\ ~werr'[c] /\ wres'[c] = usedFiles[c]
                \/ chClosed'[c] /\ werr'[c]]_vars
    /\ \A c \in Cache :
          (wpc[c] = "loop" /\ watchCancelled) ~> (wpc[c] = "returned" /\ (werr[c] => chClosed[c]))

C9_Witness ==
    /\ wpc["mod"] = "returned" /\ ~werr["mod"] /\ wres["mod"] # {}
    /\ wpc["build"] = "returned" /\ ~werr["build"]

\* how a finished run ended
FatalError ==
    \/ hist.startup \in {"flags", "signalFailed", "alreadyRunning", "goenv", "pidFile"}
    \/ \E c \in enabled : werr[c]

ReachedPrune == \E c \in Cache : ppc[c] # "idle"

NothingToPrune ==
    /\ hist.startup = "ok" /\ ~FatalError /\ ~ReachedPrune

\* C13: a run that ends on a fatal error (flags, cache path, PID file, watch
\* failure) exits with status 1; a run that ends with nothing to prune (abort
\* before pruning, or no recorded usage) exits with status 2; a run that
\* reached the prune phase exits with status 0, whether or not a chmod or a
\* delete failed.
C13_ExitClasses ==
    pc = "done" =>
        /\ FatalError => exitCode = 1
        /\ NothingToPrune => exitCode = 2
        /\ ReachedPrune => exitCode = 0

\* C14: a signal that arrives while pruneCaches runs changes nothing of the
\* prune; a run that reached the prune phase ends only with both walkers done,
\* their whole trees walked (what could be deleted is pruned or retained by
\* usage), and with status 0; and once pruneCaches has started the run ends.
C14_PruneNotAbortable ==
    /\ [][(pc = "prune" /\ hist'.sigInPrune # hist.sigInPrune) =>
              UNCHANGED <<fsVars, pruneVars, pc>>]_vars
    /\ []((pc = "done" /\ ReachedPrune) =>
              /\ exitCode = 0
              /\ \A c \in enabled :
                    ppc[c] = "done" /\ work[c] = <<>> /\ (~delFailed[c] => PrunedByUsage(c)))
    /\ (pc = "prune") ~> (pc = "done" /\ exitCode = 0)

C14_Witness ==
    /\ pc = "done" /\ exitCode = 0
    /\ hist.sigInPrune /\ mainCancelled
    /\ enabled = Cache
    /\ counter["mod"] > 0 /\ counter["build"] > 0

\* how a run that did not prune is accounted for
NoPruneCause ==
    \/ hist.abortAtCheck
    \/ FatalError
    \/ files["mod"] = {} /\ files["build"] = {}

Pruned ==
    /\ exitCode = 0
    /\ \A c \in Cache : watches[c] = {} /\ wpc[c] \in {"idle", "returned"}
    /\ \A c \in enabled : ppc[c] = "done"

\* C15: once SIGHUP has cancelled the watch context the run ends, and unless an
\* abort signal was seen at the check, a session failed or both usage sets are
\* empty, it ends with no session watching, both configured caches pruned and
\* status 0; and no walker starts unless the watch context is cancelled.
C15_BeginPruning ==
    /\ [](ReachedPrune => watchCancelled)
    /\ (pc # "start" /\ watchCancelled) ~> (pc = "done" /\ (NoPruneCause \/ Pruned))

C15_Witness ==
    /\ pc = "done" /\ Pruned
    /\ ~mainCancelled /\ ~hist.sigInPrune
    /\ enabled = Cache
    /\ files["mod"] # {} /\ files["build"] = {}

\* the watch phase ended, without abort and without error, with both usage
\* sets empty
EndedUnused ==
    /\ pc = "done" /\ hist.startup = "ok" /\ ~FatalError /\ ~hist.abortAtCheck
    /\ files["mod"] = {} /\ files["build"] = {}

\* C16: when the watch phase ends with both usage sets empty pruneCaches is
\* not called, nothing is deleted from either cache, and the run exits with
\* status 2.
C16_NothingToPrune ==
    EndedUnused => (NoPruneYet /\ exitCode = 2)

\* the usage sets of cache c: of the running session, returned, and of mainErr
UsageOf(c) == usedFiles[c] \cup wres[c] \cup files[c]

\* C17: every path in a usage set of a cache lies under the root of that
\* cache, and a usage set grows only by the event its own session receives,
\* the other session's set and channel staying as they are.
C17_Isolation ==
    /\ [](\A c \in Cache : \A p \in UsageOf(c) : IsPrefix(Root(c), p))
    /\ [][\A c \in Cache :
            ~(usedFiles'[c] \subseteq usedFiles[c]) =>
                /\ wpc[c] = "loop" /\ evq[c] # <<>>
                /\ usedFiles'[c] = usedFiles[c] \cup {Head(evq[c]).p}
                /\ \A o \in Cache \ {c} : usedFiles'[o] = usedFiles[o] /\ evq'[o] = evq[o]]_vars

C17_Witness ==
    /\ wpc["mod"] = "loop" /\ wpc["build"] = "loop"
    /\ usedFiles["mod"] # {} /\ usedFiles["build"] # {}

\* session c returned an error from its setup: NewWatcher, the initial walk or
\* StartAll failed, it never entered its loop
SetupFailed(c) == wpc[c] = "returned" /\ werr[c] /\ ~chClosed[c]

\* C21: when the setup of a session fails no session is in its event loop:
\* with two configured caches the other session is not left watching and
\* waiting for a signal.
C21_SetupFailureAborts ==
    \A c \in enabled : SetupFailed(c) => \A o \in enabled : wpc[o] # "loop"

\* C24: while a session is in its loop its usage set only grows, and only by
\* a step of that session; the sets watchCaches returned are never changed
\* afterwards, by no step of the checks or of the prune phase; and what walker
\* c prunes and retains is determined by the usage set of cache c.
C24_UsageSetDiscipline ==
    /\ [][\A c \in Cache :
            /\ (wpc[c] = "loop" /\ wpc'[c] = "loop") => usedFiles[c] \subseteq usedFiles'[c]
            /\ (usedFiles'[c] # usedFiles[c]) =>
                  /\ wpc[c] \in {"loop", "stopping"}
                  /\ \A o \in Cache \ {c} : usedFiles'[o] = usedFiles[o] /\ wpc'[o] = wpc[o]
            /\ (wpc[c] = "returned") => wres'[c] = wres[c]]_vars
    /\ [][(pc \in {"check", "prune", "done"}) => (files' = files /\ usedFiles' = usedFiles)]_vars
    /\ [](pc \in {"check", "prune"} => \A c \in Cache : files[c] = IF c \in enabled THEN wres[c] ELSE {})
    /\ [](\A c \in enabled : (ppc[c] = "done" /\ ~delFailed[c]) => PrunedByUsage(c))

C24_Witness ==
    /\ pc = "done" /\ exitCode = 0 /\ enabled = Cache
    /\ files["mod"] = {Root("mod") \o <<D1>>} /\ files["build"] = {Root("build") \o <<A1>>}
    /\ Exists(fsys["mod"], Root("mod") \o <<D1, GoMod>>)
    /\ Exists(fsys["build"], Root("build") \o <<A1>>)

----------------------------------------------------------------------------
(* Properties of pruneCaches *)

OpPaths(c, kind) == {ops[c][i][2] : i \in {j \in 1..Len(ops[c]) : ops[c][j][1] = kind}}

NoDeleteFails(c) == ~delFailed[c]

UnitsLeft == {u \in Units0 : Exists(fsys["mod"], u)}

NonNested(units) == \A u \in units, v \in units : IsPrefix(u, v) => u = v

ModPassDone(n) == ppc["mod"] = "done" /\ hist.pass = n /\ NoDeleteFails("mod")

\* the second pass deleted nothing and counted nothing
SecondPassNoOp ==
    ModPassDone(2) =>
        /\ counter["mod"] = 0
        /\ OpPaths("mod", "removeAll") = {}
        /\ fsys["mod"] = hist.tree1["mod"]

C4_UsedUnitOpaque ==
    \A u \in (Units0 \cap files["mod"]) \ {Root("mod")} :
        (\A v \in Units0 : IsPrefix(v, u) => v \in files["mod"]) =>
            \A q \in OpPaths("mod", "chmod") \cup OpPaths("mod", "removeAll") :
                IsPrefix(u, q) => q = u

\* C5: after the walk of a build cache (all deletes succeeding) every
\* non-directory outside the usage set is gone, every file in the usage set is
\* still there, and every directory is still there.
C5_BuildPrune ==
    (ppc["build"] = "done" /\ NoDeleteFails("build")) =>
        \A n \in hist.tree0["build"] :
            /\ n.d => n \in fsys["build"]
            /\ (~n.d /\ n.p \notin files["build"]) => n \notin fsys["build"]
            /\ (~n.d /\ n.p \in files["build"]) => n \in fsys["build"]

C5_Witness ==
    /\ ppc["build"] = "done" /\ NoDeleteFails("build")
    /\ hist.tree0["build"] = BuildTree
    /\ files["build"] = {Root("build") \o <<B00, AGo>>}
    /\ Children(fsys["build"], Root("build") \o <<Sub>>) = {}
    /\ counter["build"] = 2

\* C10: the cache root is never chmod-ed or removed.
C10_RootNeverDeleted ==
    \A c \in Cache :
        /\ Root(c) \notin OpPaths(c, "chmod") \cup OpPaths(c, "removeAll") \cup OpPaths(c, "remove")
        /\ (hist.tree0[c] # {} => Exists(fsys[c], Root(c)))

\* the tree a cache had when the current pass began
PassStart(c) == IF hist.pass = 1 THEN hist.tree0[c] ELSE hist.tree1[c]

\* the units, respectively the files, the current pass has deleted
UnitsDeleted ==
    {u \in UnitsOf(PassStart("mod")) : ~Exists(fsys["mod"], u)}

FilesDeleted ==
    {n \in PassStart("build") : ~n.d /\ n \notin fsys["build"]}

\* C11: when a walk has finished, the tally of the module cache is the number
\* of units deleted in that pass (units pairwise non-nested, so that each is
\* deleted on its own), the tally of the build cache is the number of files
\* deleted in that pass, and neither depends on the other.
C11_TallyAccurate ==
    /\ (ppc["mod"] = "done" /\ NonNested(UnitsOf(PassStart("mod")))) =>
          counter["mod"] = Cardinality(UnitsDeleted)
    /\ ppc["build"] = "done" =>
          counter["build"] = Cardinality(FilesDeleted)

----------------------------------------------------------------------------
(* Properties of pruneCaches when calls fail *)

\* C12: a failure on one entry (a walk error, a failed chmod, a failed delete,
\* an entry that disappears during the walk) does not end the walk: when the
\* walk has finished every entry apart from the failing one has been pruned or
\* retained according to the usage set, and pruneCaches returns.
C12_BestEffort ==
    /\ [](\A c \in enabled : ppc[c] = "done" => PrunedByUsage(c))
    /\ (pc = "prune") ~> (pc = "done")

C12_Witness ==
    /\ pc = "done" /\ enabled = {"mod"}
    /\ undeletable["mod"] = {Root("mod") \o <<D1, AGo>>}
    /\ delFailed["mod"]
    /\ Exists(fsys["mod"], Root("mod") \o <<D1>>)
    /\ UnitsLeft = DefaultModUsage \cup {Root("mod") \o <<D1>>}

\* the step of walker c is a call of the walk function with an error: the
\* entry at the head of its work is gone (ENOENT from Lstat or ReadDir),
\* respectively is a directory that cannot be listed
NotExistVisit(c) ==
    /\ pc = "prune" /\ ppc[c] = "walk" /\ work[c] # <<>>
    /\ \/ Head(work[c]).ph = "read" /\ ~IsDirIn(fsys[c], Head(work[c]).p)
       \/ Head(work[c]).ph = "lstat" /\ ~Exists(fsys[c], Head(work[c]).p)
    /\ work'[c] = Tail(work[c])

OtherErrorVisit(c) ==
    /\ pc = "prune" /\ ppc[c] = "walk" /\ work[c] # <<>>
    /\ Head(work[c]).ph = "read" /\ IsDirIn(fsys[c], Head(work[c]).p)
    /\ Head(work[c]).p \in unreadable[c]
    /\ work'[c] = Tail(work[c])

\* C19: a visit with a "path no longer exists" error is skipped silently: no
\* chmod, no delete, no warning, and the tally stays as it is.
C19_VanishedSkipped ==
    [][\A c \in Cache :
          NotExistVisit(c) =>
              /\ ops'[c] = ops[c]
              /\ counter'[c] = counter[c]
              /\ fsys'[c] = fsys[c] /\ readonly'[c] = readonly[c]]_vars

\* C20: a visit with any other walk error emits a warning for the entry, in
\* the module cache and in the build cache, deletes nothing and the walk goes
\* on with the next entry.
C20_WalkErrorsWarned ==
    [][\A c \in Cache :
          OtherErrorVisit(c) =>
              /\ ops'[c] = Append(ops[c], <<"warnWalk", Head(work[c]).p>>)
              /\ counter'[c] = counter[c]
              /\ fsys'[c] = fsys[c]]_vars

----------------------------------------------------------------------------
(* Properties of dependencyDir *)

\* a version: it ends with +incompatible, is a valid semantic version or is a
\* pseudo-version
VersionShape(ver) ==
    HasSuffix(ver, "+incompatible") \/ semverIsValid(ver) \/ IsPseudoVersion(ver)

\* name is n@ver with ver, what follows the first "@", a version
NameAtVersion(name) ==
    \E k \in 1..Len(name) :
        /\ name[k] = "@" /\ \A j \in 1..(k - 1) : name[j] # "@"
        /\ VersionShape(SubSeq(name, k + 1, Len(name)))

RuleResult(q) ==
    IF ~q.isDir /\ Base(q.path) = <<"go.mod">>
    THEN [dir |-> Dir(q.path), ok |-> TRUE]
    ELSE IF q.isDir /\ NameAtVersion(Base(q.path))
         THEN [dir |-> q.path, ok |-> TRUE]
         ELSE NotADep

\* C18: dependencyDir returns (parent, true) for a non-directory named go.mod,
\* (path, true) for a directory named name@ver with ver a version, and not a
\* unit for every other entry; every call on the same entry returns the same.
C18_ClassifierRules ==
    \A i \in 1..Len(dr) : dr[i] = RuleResult(dq) /\ dr[i] = dr[1]

C18_Witness ==
    /\ Len(dr) >= 2
    /\ dq.isDir /\ Base(dq.path) = D4
    /\ dr[1] = [dir |-> dq.path, ok |-> TRUE] /\ dr[2] = dr[1]

----------------------------------------------------------------------------
(* Properties of the watch phase *)

\* the paths of the AddDescriptor calls of session c with result r
AddedWith(c, r) ==
    {hist.adds[c][i][1] : i \in {j \in 1..Len(hist.adds[c]) : hist.adds[c][j][2] = r}}

\* C22: in the initial walk of either cache an AddDescriptor call that fails
\* with an error other than ErrDescAlreadyExists ends the walk there and
\* watchCache returns an error; a call that fails with ErrDescAlreadyExists is
\* ignored: unless something else fails the walk goes on to the last entry
\* and every unit, respectively every directory, of the tree gets its watch.
C22_RegistrationFailures ==
    \A c \in enabled :
        (hist.setup[c] \notin {"none", "newWatcher"}) =>
            /\ AddedWith(c, "error") # {} =>
                  /\ hist.setup[c] = "walk" /\ werr[c] /\ wpc[c] = "returned"
                  /\ hist.adds[c][Len(hist.adds[c])][2] = "error"
            /\ (AddedWith(c, "error") = {} /\ unreadable[c] = {}) =>
                  /\ hist.setup[c] \in {"ok", "startAll"}
                  /\ InitialWatches(c, hist.tree0[c]) \subseteq AddedWith(c, "ok")

C22_Witness ==
    /\ wpc["mod"] = "loop"
    /\ AddedWith("mod", "exists") # {}
    /\ Cardinality(watches["mod"]) >= 2

\* C23: receiving a value from watcher.Errors leaves the session in its loop
\* with its usage set as it was and no error; once a backend channel is
\* closed watchCache returns no usage set and an error, pruneCaches is never
\* called and the run ends with that error.
C23_ErrorsVersusDeath ==
    /\ [][\A c \in Cache :
            (hist'.errLogged[c] # hist.errLogged[c]) =>
                /\ wpc[c] = "loop" /\ wpc'[c] = "loop"
                /\ usedFiles'[c] = usedFiles[c]
                /\ ~werr'[c]]_vars
    /\ [](\A c \in Cache :
            chClosed[c] =>
                /\ werr[c] /\ wres[c] = {} /\ wpc[c] \in {"stopping", "returned"}
                /\ pc \in {"watch", "done"}
                /\ \A o \in Cache : ppc[o] = "idle" /\ ops[o] = <<>>
                /\ (pc = "done" => (ret # Nil /\ exitCode = 1)))

C23_Witness ==
    /\ pc = "done" /\ ret # Nil
    /\ \E c \in enabled : chClosed[c] /\ hist.errLogged[c] /\ watchCancelled

\* C25: once a build-cache session has received the event of a directory
\* created after the initial walk, it holds a watch on that directory (so that
\* entries created in it are reported and recorded).
C25_DynamicWatchExtension ==
    \A p \in usedFiles["build"] :
        (wpc["build"] = "loop" /\ IsDirIn(fsys["build"], p) /\ p \notin Paths(hist.tree0["build"])
            /\ p \notin AddedWith("build", "ok")) =>
            p \in watches["build"]

\* the units of a tree that lie in no other unit
TopUnits(tree) ==
    {u \in UnitsOf(tree) : \A v \in UnitsOf(tree) : IsPrefix(v, u) => v = u}

\* C26: the initial walk of the module cache makes one AddDescriptor call per
\* top-level unit, at the unit root, and none for an entry inside a unit (it
\* does not descend into a unit): the watches are the top-level units, one
\* each, none inside another.
C26_OneWatchPerUnit ==
    (hist.setup["mod"] = "ok") =>
        /\ AddedWith("mod", "ok") = TopUnits(hist.tree0["mod"])
        /\ Len(hist.adds["mod"]) = Cardinality(TopUnits(hist.tree0["mod"]))
        /\ NonNested(AddedWith("mod", "ok"))

\* the unit paths dependencyDir produced for the entries the initial walk of
\* the module cache visited
ProducedUnits == AddedWith("mod", "ok") \cup AddedWith("mod", "exists")

\* C27: the unit paths dependencyDir produces over the entries of a module
\* cache tree are pairwise non-nested, and every file of the tree lies in
\* exactly one of them.
C27_UnitPartition ==
    (hist.setup["mod"] = "ok") =>
        /\ NonNested(ProducedUnits)
        /\ \A n \in hist.tree0["mod"] :
              ~n.d => Cardinality({u \in ProducedUnits : IsPrefix(u, n.p)}) = 1

----------------------------------------------------------------------------
(* Properties of the release of the watches and of the PID file *)

\* C28: a session that returned after its watcher was created holds no
\* registered watch any more, whatever way it returned; and once mainErr has
\* returned after creating the PID file, the PID file is gone.
C28_GuaranteedRelease ==
    /\ \A c \in Cache : (wpc[c] = "returned" /\ hist.setup[c] # "newWatcher") => watches[c] = {}
    /\ (pc = "done" /\ usePIDFile /\ hist.startup = "ok") => pidFile = 0

----------------------------------------------------------------------------
(* Properties of the deletion of a module-cache unit *)

\* the calls a step of the walker of cache c adds to ops[c]
NewOps(c) == SubSeq(ops'[c], Len(ops[c]) + 1, Len(ops'[c]))

\* the positions of the os.RemoveAll calls in a sequence of calls
RemoveAllAt(log) == {k \in 1..Len(log) : log[k][1] = "removeAll"}

\* the os.RemoveAll at position k of log reported an error
DeleteWarned(log, k) == k < Len(log) /\ log[k + 1] = <<"warnDelete", log[k][2]>>

\* C29: a step of the module-cache walker that calls os.RemoveAll calls it once,
\* on a unit that is not in modFiles, after the chmod calls of chmodDir and
\* before any other call; when the delete reports success every path that was
\* under the unit has had its os.Chmod call before the delete, the whole
\* subtree of the unit is gone after the step and the tally is one higher;
\* the tally changes on no other step of the walker.
C29_ChmodBeforeDelete ==
    [][LET new == NewOps("mod")
           at  == RemoveAllAt(new)
       IN  /\ (pc = "prune" /\ pc' = "prune" /\ Len(ops'["mod"]) >= Len(ops["mod"]) /\ at # {}) =>
                 \E k \in at :
                    LET u == new[k][2]
                        unit == Under(fsys["mod"], u)
                    IN  /\ at = {k}
                        /\ u \notin files["mod"]
                        /\ \A j \in 1..(k - 1) : new[j][1] \in {"chmod", "warnChmod", "warnWalk"}
                        /\ IF DeleteWarned(new, k)
                           THEN /\ counter'["mod"] = counter["mod"]
                                /\ delFailed'["mod"]
                           ELSE /\ \A n \in unit : \E j \in 1..(k - 1) : new[j] = <<"chmod", n.p>>
                                /\ fsys'["mod"] = fsys["mod"] \ unit
                                /\ counter'["mod"] = counter["mod"] + 1
           /\ (pc = "prune" /\ pc' = "prune" /\ counter'["mod"] # counter["mod"]) =>
                 (at # {} /\ \A k \in at : ~DeleteWarned(new, k))
      ]_vars

\* a unit with a file in it was deleted: os.Chmod was called on the unit and on
\* the file, then os.RemoveAll succeeded and the tally was raised
C29_Witness ==
    \E k \in RemoveAllAt(ops["mod"]) :
        /\ ~DeleteWarned(ops["mod"], k)
        /\ counter["mod"] >= 1
        /\ ~Exists(fsys["mod"], ops["mod"][k][2])
        /\ \E i, j \in 1..(k - 1) :
              /\ i < j
              /\ ops["mod"][i] = <<"chmod", ops["mod"][k][2]>>
              /\ ops["mod"][j][1] = "chmod"
              /\ ops["mod"][j][2] # ops["mod"][k][2]
              /\ IsPrefix(ops["mod"][k][2], ops["mod"][j][2])

----------------------------------------------------------------------------
(* Properties of the PID file *)

\* the instances that wrote the PID file and went on to the watch phase
Running == {i \in Inst : ipc[i] = "running"}

\* C30: of the instances started with -pid-file on one machine, at most one
\* is past the PID file check and creation at any time, however their checks
\* and creations interleave.
C30_SingleInstance ==
    Cardinality(Running) <= 1

----------------------------------------------------------------------------
(* Properties of watchCaches *)

\* C31: no variable of watchCaches is assigned by both watch goroutines: the
\* module goroutine assigns modFiles and watchModErr only, the build goroutine
\* buildFiles and watchBuildErr only, also when sessions fail.
C31_DisjointWrites ==
    /\ hist.writers.modFiles \subseteq {"mod"}
    /\ hist.writers.watchModErr \subseteq {"mod"}
    /\ hist.writers.buildFiles \subseteq {"build"}
    /\ hist.writers.watchBuildErr \subseteq {"build"}
    /\ \A v \in DOMAIN hist.writers : Cardinality(hist.writers[v]) <= 1

\* a watch session of a configured cache returned an error
SessionFailed == \E c \in enabled : werr[c]

\* nothing was pruned: no walker was started and no call was made
NothingPruned ==
    /\ \A c \in Cache : ppc[c] = "idle" /\ ops[c] = <<>> /\ counter[c] = 0
    /\ fsys = hist.tree0

\* C32: when watchCaches returns, mainErr ends with a fatal error exactly if
\* a watch session returned an error, and then with no usage set; otherwise it
\* goes on with the usage sets of the sessions.  A run in which a session
\* failed ends with status 1 and has pruned nothing, whatever the other
\* session recorded.
C32_WatchFailureBlocksPrune ==
    /\ [][(pc = "watch" /\ pc' # "watch") =>
             /\ (pc' = "done") <=> SessionFailed
             /\ (pc' # "done") => pc' = "check"
             /\ SessionFailed =>
                   /\ ret' # Nil /\ ~ErrorsAs(ret', "*errJustExit") /\ exitCode' = 1
                   /\ files' = [c \in Cache |-> {}]
             /\ ~SessionFailed =>
                   files' = [c \in Cache |-> IF c \in enabled THEN wres[c] ELSE {}]
        ]_vars
    /\ []((hist.startup = "ok" /\ SessionFailed) =>
             /\ pc \in {"watch", "done"}
             /\ NothingPruned
             /\ (pc = "done") => exitCode = 1)

\* the build session failed, the module session was stopped by SIGHUP and
\* returned a usage set that is not empty, and the run has ended
C32_Witness ==
    /\ pc = "done" /\ exitCode = 1
    /\ enabled = Cache
    /\ werr["build"] /\ ~werr["mod"]
    /\ wres["mod"] # {}
    /\ files = [c \in Cache |-> {}]
    /\ NothingPruned

----------------------------------------------------------------------------
(* Properties of the check before pruneCaches *)

\* the units of the module cache, respectively the files of the build cache
Prunable(c, tree) ==
    IF c = "mod" THEN UnitsOf(tree) ELSE {n.p : n \in {m \in tree : ~m.d}}

\* C33: the check of the usage sets skips pruneCaches only when both are
\* empty: with no abort and one usage set not empty the walkers of all
\* configured caches are started, and when pruneCaches has returned, a
\* configured cache whose usage set is empty and in which no delete failed has
\* none of its units, respectively none of its files, left.
C33_SkipOnlyWhenBothEmpty ==
    /\ [][(pc = "check" /\ pc' # "check") =>
             IF mainCancelled \/ (files["mod"] = {} /\ files["build"] = {})
             THEN pc' = "done" /\ ret' = ErrJustExit(2) /\ UNCHANGED <<fsys, ppc, ops>>
             ELSE /\ pc' = "prune"
                  /\ \A c \in Cache : ppc'[c] = IF c \in enabled THEN "walk" ELSE "idle"
        ]_vars
    /\ [](\A c \in enabled :
             (pc = "done" /\ hist.startup = "ok" /\ exitCode = 0 /\ files[c] = {} /\ ~delFailed[c]) =>
                 Prunable(c, fsys[c]) = {})

\* both caches were configured, only the build session recorded a usage, and
\* pruneCaches removed the unit of the module cache and kept the used file
C33_Witness ==
    /\ pc = "done" /\ exitCode = 0
    /\ enabled = Cache
    /\ files["mod"] = {} /\ files["build"] # {}
    /\ Prunable("mod", hist.tree0["mod"]) # {}
    /\ Prunable("mod", fsys["mod"]) = {}
    /\ counter["mod"] >= 1
    /\ files["build"] \cap Prunable("build", fsys["build"]) # {}

----------------------------------------------------------------------------
(* Properties of a cache that is not configured *)

\* C34: for a cache without a root no watch session and no walker exists, no
\* descriptor is registered and no event is taken for it, none of the
\* variables of watchCaches is assigned on its behalf, and its tree and the
\* permissions in it stay as they were, with no Chmod or Remove call made.
C34_DisabledUntouched ==
    \A c \in Cache \ enabled :
        /\ wpc[c] = "idle" /\ hist.setup[c] = "none"
        /\ watches[c] = {} /\ hist.adds[c] = <<>>
        /\ evq[c] = <<>> /\ usedFiles[c] = {}
        /\ wres[c] = {} /\ ~werr[c] /\ files[c] = {}
        /\ \A v \in DOMAIN hist.writers : c \notin hist.writers[v]
        /\ ppc[c] = "idle" /\ work[c] = <<>>
        /\ ops[c] = <<>> /\ counter[c] = 0 /\ ~delFailed[c]
        /\ fsys[c] = hist.tree0[c]
        /\ readonly[c] = (IF c = "mod" THEN ReadOnlyDirs(hist.tree0[c]) ELSE {})

\* a run with the build cache alone went through the watch and the prune
\* phase and deleted a file, and the module cache still has its unit
C34_Witness ==
    /\ enabled = {"build"}
    /\ pc = "done" /\ exitCode = 0 /\ hist.startup = "ok"
    /\ counter["build"] >= 1
    /\ fsys["build"] # hist.tree0["build"]
    /\ UnitsOf(fsys["mod"]) # {}
    /\ fsys["mod"] = hist.tree0["mod"]
    /\ ops["mod"] = <<>>

====
